---- MODULE Spec2Model ----
(***************************************************************************)
(* Managed codebase indexing (lexsf/kilocode, src/services/code-index/     *)
(* managed): the file watcher's debounce queue, the orchestrator's         *)
(* startIndexing / dispose life cycle and the scanner's three-way          *)
(* reconcile, as state machines.                                           *)
(*                                                                         *)
(* The specifications share    the module's variables; each one drives its  *)
(* own component and leaves the other components' variables at rest:       *)
(*   SpecWatcher  createFileWatcher / processChangeQueue (watcher.ts)      *)
(*   Spec         startIndexing and the Disposable it returns (indexer.ts) *)
(*   SpecScan     scanDirectory's reconcile of local files, client cache   *)
(*                and server manifest (scanner.ts, cache.ts)               *)
(*   SpecRescan   two Start runs on an unchanged workspace, on a base or   *)
(*                a feature branch: the scan and the state Start ends in   *)
(*   SpecSearch   search: the request it hands to the remote search       *)
(*   SpecChunk    chunkFile on any content under any configuration        *)
(*   SpecChunkId  chunkFile called twice with other path, branch or        *)
(*                organization: the ids of the chunks                      *)
(*   SpecBatch    the watcher's batches on the client cache of a workspace *)
(*                whose files are created and deleted                      *)
(*   SpecGit      isBaseBranch and getBaseBranch on a repository whose     *)
(*                remote default branch may be unknown (git-utils.ts)      *)
(*   SpecDiff     parseDiffOutput on the text of git diff --name-status    *)
(*   SpecState    getIndexerState on the cache files of a workspace         *)
(*   SpecBatchOrder  the same batches on one feature branch: the order the  *)
(*                events are handled in and what a failing event leaves    *)
(*   SpecHelpers  the cache helpers on cache objects that callers share     *)
(*   SpecCache    loadClientCache / saveClientCache / clearClientCache on  *)
(*                the cache files of one workspace, with branch switches   *)
(***************************************************************************)
EXTENDS Integers, Sequences, FiniteSets, TLC

VARIABLES
    \* ---- watcher (createFileWatcher's closure) ----
    registered,     \* the three event subscriptions are live
    watcherDisposed,\* dispose() of the returned Disposable has run
    changeQueue,    \* const changeQueue: FileChangeEvent[]
    debounceTimer,  \* "null" | "pending" | "expired"
    batches,        \* every processChangeQueue invocation, in start order
    delivered,      \* filesystem events delivered to the subscriptions so far
    accepted,       \* ids of the events that passed the extension filter
    \* ---- orchestrator (startIndexing) ----
    pc,             \* position of the startIndexing call
    isRepo,         \* environment: isGitRepository(workspacePath)
    emitted,        \* sequence of states handed to onStateChange
    manifestResponse,\* environment: how the manifest request settled ("none" before)
    manifest,       \* let manifest: "undefined" | "present"
    manifestFetches,\* number of getServerManifest calls
    scanCalls,      \* number of scanDirectory calls
    progressCalls,  \* number of progress callbacks of the running scan
    result,         \* the ScanResult scanDirectory settled with
    outcome,        \* "pending" | "handle" | "threw"
    handleLive,     \* the returned Disposable has not run its callback yet
    disposeCalls,   \* number of dispose() calls on the returned Disposable
    watcherInstalled,\* startIndexing created a file watcher
    \* ---- scanner (scanDirectory) ----
    scanPc,         \* "off" | "enumerate" | "reconcile" | "upload" | "done" | "settled"
    scanBranch,     \* environment: the branch checked out while scanning
    diff,           \* environment: getGitDiff(scanBranch, "main")
    server,         \* the remote index of the branch: path -> manifest entry
    localFiles,     \* candidate path -> current hash ("absent" when not a candidate)
    cache0,         \* the client cache as loaded at the start of the scan
    cache,          \* the client cache being updated
    serverManifest, \* [present, files]: the manifest handed to scanDirectory
    pending,        \* candidates not yet reconciled, in order
    toIndex,        \* files enqueued for chunking and upload, in order
    uploaded,       \* files chunked and upserted by the running scan
    deleted,        \* files the running scan deleted on the server
    scanChunks,     \* chunks the running scan has upserted
    runs,           \* what each finished Start run did and the state it ended in
    \* ---- search ----
    searchPc,       \* "off" | "start" | "request" | "done"
    searchArgs,     \* the caller's query and path, the config's organization and project
    curBranch,      \* environment: what getCurrentBranch returns (NoBranch: it throws)
    remoteDefault,  \* environment: getDefaultBranchFromRemote ("null" when undetermined)
    verifies,       \* environment: the branches git rev-parse --verify accepts
    gitDiff,        \* environment: base -> outcome of getGitDiff(curBranch, base)
    requests,       \* the requests handed to apiSearchCode
    searchOutcome,  \* "pending" | "results" | "GitError" | "RemoteError"
    \* ---- chunker (chunkFile) ----
    chunkPc,        \* "off" | "loop" | "done"
    chunkInput,     \* the arguments of the chunkFile call
    chunkI,         \* let i: index of the next line (0-based)
    currentChunk,   \* let currentChunk: string[]
    currentChunkChars,\* let currentChunkChars
    startLine,      \* let startLine
    chunks,         \* const chunks: ManagedCodeChunk[]
    prevChunks,     \* what the previous chunkFile call returned
    \* ---- cache store (cache.ts) ----
    disk,           \* globalStorageUri: cache file name -> file content
    headBranch,     \* environment: the branch checked out in the workspace
    held,           \* the ClientCache the caller holds (NoCache before a load)
    lastSaved,      \* per branch: the cache last written under that gitBranch
    lastOp,         \* the last cache operation and how it ended
    prevOp,         \* the operation before it
    \* ---- watcher batches on the client cache (watcher.ts, scanner.ts) ----
    workspaceFiles, \* environment: the files present in the live workspace
    baseFiles,      \* environment: the files present on the base branch
    watchBranch,    \* environment: the branch checked out
    watchCache,     \* the client cache of that branch
    watchServer,    \* files that have chunks on the server for that branch
    watchQueue,     \* events accepted since the last batch, oldest first
    watchBatch,     \* the last processChangeQueue call: its events, the order it
                    \* handled them in, and the calls of onFilesChanged
    \* ---- git probe (git-utils.ts) ----
    gitRepo,        \* environment: the repository the git commands run in
    probe,          \* the last isBaseBranch / getBaseBranch call and its result
    \* ---- parseDiffOutput (git-utils.ts) ----
    diffEntries,    \* environment: the changes git reports, one per line
    diffOutput,     \* the text git prints for them: the argument diffOutput
    parsePc,        \* position of the parseDiffOutput call
    parseI,         \* number of lines the for loop has handled
    diffLists,      \* the lists added, modified, deleted
    \* ---- cache objects in memory (cache.ts helpers) ----
    heapFiles,      \* the files objects, by reference
    heapLists,      \* the deletedFiles arrays, by reference
    heapCaches,     \* the ClientCache objects, by reference: their members are references
    helperCall      \* the last helper call: its argument, the argument's content
                    \* before the call, and the reference returned

wvars == <<registered, watcherDisposed, changeQueue, debounceTimer, batches, delivered,
           accepted>>
ovars == <<pc, isRepo, emitted, manifestResponse, manifest, manifestFetches, scanCalls, progressCalls,
           result, outcome, handleLive, disposeCalls, watcherInstalled>>
svars == <<scanPc, scanBranch, diff, server, localFiles, cache0, cache, serverManifest, pending,
           toIndex, uploaded, deleted, scanChunks, runs>>
qvars == <<searchPc, searchArgs, curBranch, remoteDefault, verifies, gitDiff, requests,
           searchOutcome>>
kvars == <<chunkPc, chunkInput, chunkI, currentChunk, currentChunkChars, startLine, chunks,
           prevChunks>>
cvars == <<disk, headBranch, held, lastSaved, lastOp, prevOp>>
\* The components of the indexing pipeline proper, and the stores and probes
\* beside it.
core == <<wvars, ovars, svars, qvars, kvars>>
bvars == <<workspaceFiles, baseFiles, watchBranch, watchCache, watchServer, watchQueue,
           watchBatch>>
gvars == <<gitRepo, probe>>
pvars == <<diffEntries, diffOutput, parsePc, parseI, diffLists>>
hvars == <<heapFiles, heapLists, heapCaches, helperCall>>
rest == <<cvars, bvars, gvars, pvars, hvars>>
notC == <<core, bvars, gvars, pvars, hvars>>
notB == <<core, cvars, gvars, pvars, hvars>>
notG == <<core, cvars, bvars, pvars, hvars>>
notP == <<core, cvars, bvars, gvars, hvars>>
notH == <<core, cvars, bvars, gvars, pvars>>
vars == <<core, rest>>

\* ------------------------------------------------------------------ bounds
MaxEvents == 2      \* filesystem events delivered in one run
MaxProgress == 2    \* progress callbacks of one scan
MaxDispose == 2     \* dispose() calls on one handle
MaxCount == 1       \* largest filesProcessed / chunksIndexed / chunkCount value
MaxContentLen == 5  \* characters of a file handed to chunkFile
MaxDiffLines == 2   \* lines of the git diff --name-status output
MaxHelperCalls == 2 \* helper calls on the cache objects of one run
MaxQueue == 2       \* events in the watcher's queue when a batch starts

\* ------------------------------------------------------------ sequences
RECURSIVE SelectSeq2(_, _, _)
\* events.filter((e) => e.type === t), order kept
SelectSeq2(s, t, i) ==
    IF i > Len(s) THEN <<>>
    ELSE IF s[i].type = t THEN <<s[i]>> \o SelectSeq2(s, t, i + 1)
    ELSE SelectSeq2(s, t, i + 1)

filterType(events, t) == SelectSeq2(events, t, 1)

\* ================================================================ watcher
Paths == {"a.ts", "B.TS", "logo.png"}

\* path.extname(uri.fsPath)
extname(p) == CASE p = "a.ts" -> ".ts" [] p = "B.TS" -> ".TS" [] p = "logo.png" -> ".png"
\* String.prototype.toLowerCase on the extensions above and on branch names
toLowerCase(e) ==
    CASE e = ".TS" -> ".ts"
      [] e = "Main" -> "main"
      [] e = "MASTER" -> "master"
      [] e = "Canary" -> "canary"
      [] OTHER -> e
scannerExtensions == {".ts"}

WatcherInit ==
    /\ registered = TRUE
    /\ watcherDisposed = FALSE
    /\ changeQueue = <<>>
    /\ debounceTimer = "null"
    /\ batches = <<>>
    /\ delivered = 0
    /\ accepted = {}

WatcherOff ==
    /\ registered = FALSE
    /\ watcherDisposed = FALSE
    /\ changeQueue = <<>>
    /\ debounceTimer = "null"
    /\ batches = <<>>
    /\ delivered = 0
    /\ accepted = {}

\* The order in which processChangeQueue handles a batch: deletions first,
\* then [...created, ...changed].
WorkList(events) ==
    filterType(events, "deleted") \o filterType(events, "created") \o filterType(events, "changed")

\* handleChange(uri, type): extension filter, push, clearTimeout, setTimeout.
\* timestamp is Date.now() counted in debounce-timer expirations; id stands for
\* the identity of the pushed object.
handleChange(path, type) ==
    /\ registered
    /\ delivered < MaxEvents
    /\ delivered' = delivered + 1
    /\ IF toLowerCase(extname(path)) \notin scannerExtensions
       THEN UNCHANGED <<changeQueue, debounceTimer, accepted>>
       ELSE /\ changeQueue' = Append(changeQueue,
                    [type |-> type, filePath |-> path,
                     timestamp |-> Len(batches), id |-> delivered + 1])
            /\ debounceTimer' = "pending"
            /\ accepted' = accepted \cup {delivered + 1}
    /\ UNCHANGED <<registered, watcherDisposed, batches>>

OnDidCreate == \E p \in Paths : handleChange(p, "created") /\ UNCHANGED <<ovars, svars, qvars, kvars, rest>>
OnDidChange == \E p \in Paths : handleChange(p, "changed") /\ UNCHANGED <<ovars, svars, qvars, kvars, rest>>
OnDidDelete == \E p \in Paths : handleChange(p, "deleted") /\ UNCHANGED <<ovars, svars, qvars, kvars, rest>>

\* The setTimeout callback starts: processChangeQueue([...changeQueue], ...) is
\* called with a copy of the queue and runs up to its first await. An empty
\* copy returns at once and the callback's changeQueue.length = 0 follows in
\* the same turn of the event loop.
TimerFires ==
    /\ debounceTimer = "pending"
    /\ debounceTimer' = "expired"
    /\ batches' = Append(batches,
            [events |-> changeQueue,
             pc |-> IF changeQueue = <<>> THEN "done" ELSE "load",
             pos |-> 0])
    /\ UNCHANGED <<registered, watcherDisposed, changeQueue, delivered, accepted>>
    /\ UNCHANGED <<ovars, svars, qvars, kvars, rest>>

\* await loadClientCache(...) resolves: the first handler call of the work list
\* is issued.
BatchLoaded(b) ==
    /\ b \in 1..Len(batches)
    /\ batches[b].pc = "load"
    /\ batches' = [batches EXCEPT ![b].pc = "run", ![b].pos = 1]
    /\ UNCHANGED <<registered, watcherDisposed, changeQueue, debounceTimer, delivered, accepted>>
    /\ UNCHANGED <<ovars, svars, qvars, kvars, rest>>

\* await loadClientCache(...) rejects (its catch block's getCurrentBranch
\* throws): the outer catch logs, processChangeQueue returns and the timer
\* callback clears the queue.
BatchLoadFailed(b) ==
    /\ b \in 1..Len(batches)
    /\ batches[b].pc = "load"
    /\ batches' = [batches EXCEPT ![b].pc = "done"]
    /\ changeQueue' = <<>>
    /\ UNCHANGED <<registered, watcherDisposed, debounceTimer, delivered, accepted>>
    /\ UNCHANGED <<ovars, svars, qvars, kvars, rest>>

\* The awaited handleFileDeleted / indexFile call number pos settles (a
\* rejection is caught per file and the loop goes on): the next call is issued,
\* or after the last one processChangeQueue returns and the timer callback runs
\* changeQueue.length = 0.
BatchStep(b) ==
    /\ b \in 1..Len(batches)
    /\ batches[b].pc = "run"
    /\ IF batches[b].pos < Len(WorkList(batches[b].events))
       THEN /\ batches' = [batches EXCEPT ![b].pos = @ + 1]
            /\ UNCHANGED changeQueue
       ELSE /\ batches' = [batches EXCEPT ![b].pc = "done"]
            /\ changeQueue' = <<>>
    /\ UNCHANGED <<registered, watcherDisposed, debounceTimer, delivered, accepted>>
    /\ UNCHANGED <<ovars, svars, qvars, kvars, rest>>

\* dispose() of vscode.Disposable.from(watcher, createDisposable,
\* changeDisposable, deleteDisposable): the subscriptions end. The closure's
\* debounceTimer is not touched.
WatcherDispose ==
    /\ ~watcherDisposed
    /\ watcherDisposed' = TRUE
    /\ registered' = FALSE
    /\ UNCHANGED <<changeQueue, debounceTimer, batches, delivered, accepted>>
    /\ UNCHANGED <<ovars, svars, qvars, kvars, rest>>

\* Number of indexFile calls batch b has issued for path f.
IndexFileCalls(b, f) ==
    Cardinality({i \in 1..batches[b].pos :
        /\ WorkList(batches[b].events)[i].filePath = f
        /\ WorkList(batches[b].events)[i].type \in {"created", "changed"}})

Running(b) == batches[b].pc \in {"load", "run"}

\* =========================================================== orchestrator
ManifestResponses == {"200", "404", "401", "network"}

\* An IndexerState handed to onStateChange; totals is <<totalFiles,
\* totalChunks>> where the state carries them and <<>> where it does not.
Event(status, message) == [status |-> status, message |-> message, totals |-> <<>>]

Emit(e) == emitted' = Append(emitted, e)

\* ScanResult {success, filesProcessed, chunksIndexed}; state "pending" until
\* scanDirectory settles.
NoResult == [state |-> "pending", filesProcessed |-> 0, chunksIndexed |-> 0]

OrchInit ==
    /\ pc = "start"
    /\ isRepo \in BOOLEAN
    /\ emitted = <<>>
    /\ manifestResponse = "none"
    /\ manifest = "undefined"
    /\ manifestFetches = 0
    /\ scanCalls = 0
    /\ progressCalls = 0
    /\ result = NoResult
    /\ outcome = "pending"
    /\ handleLive = FALSE
    /\ disposeCalls = 0
    /\ watcherInstalled = FALSE

OrchOff ==
    /\ pc = "off"
    /\ isRepo = TRUE
    /\ emitted = <<>>
    /\ manifestResponse = "none"
    /\ manifest = "undefined"
    /\ manifestFetches = 0
    /\ scanCalls = 0
    /\ progressCalls = 0
    /\ result = NoResult
    /\ outcome = "pending"
    /\ handleLive = FALSE
    /\ disposeCalls = 0
    /\ watcherInstalled = FALSE

\* The catch block of startIndexing: one error state, then throw err.
CatchAndRethrow(before) ==
    /\ emitted' = before \o <<Event("error", "Failed to start indexing")>>
    /\ outcome' = "threw"
    /\ pc' = "done"

\* !isGitRepository(workspacePath): the error state is emitted and the error
\* thrown inside the try block, so the function's own catch block runs too.
StartNotARepo ==
    /\ pc = "start"
    /\ ~isRepo
    /\ CatchAndRethrow(Append(emitted, Event("error", "Not a git repository")))
    /\ UNCHANGED <<isRepo, manifestResponse, manifest, manifestFetches, scanCalls, progressCalls,
                   result, handleLive, disposeCalls, watcherInstalled>>
    /\ UNCHANGED <<wvars, svars, qvars, kvars, rest>>

\* getCurrentBranch(workspacePath) throws.
StartBranchFails ==
    /\ pc = "start"
    /\ isRepo
    /\ CatchAndRethrow(emitted)
    /\ UNCHANGED <<isRepo, manifestResponse, manifest, manifestFetches, scanCalls, progressCalls,
                   result, handleLive, disposeCalls, watcherInstalled>>
    /\ UNCHANGED <<wvars, svars, qvars, kvars, rest>>

\* getCurrentBranch succeeds and getServerManifest(...) is called and awaited.
StartFetchManifest ==
    /\ pc = "start"
    /\ isRepo
    /\ manifestFetches' = manifestFetches + 1
    /\ pc' = "manifest"
    /\ UNCHANGED <<isRepo, emitted, manifestResponse, manifest, scanCalls, progressCalls, result, outcome,
                   handleLive, disposeCalls, watcherInstalled>>
    /\ UNCHANGED <<wvars, svars, qvars, kvars, rest>>

\* Mutant of ScanningStart: the state before the scan carries the status of
\* the state after it.
ScanningStart_watching == Event("watching", "Starting scan")

\* The state emitted before scanDirectory is called.
ScanningStart == Event("scanning", "Starting scan")

\* Mutant of ManifestCatch: a 404 is thrown on like an error of Start.
ManifestCatch_404Throws(r) ==
    [manifest |-> IF r = "200" THEN "present" ELSE "undefined", threw |-> r = "404"]

\* try { manifest = await getServerManifest(...) } catch (error) { ... }: a
\* 404 sets serverHasNoData and is logged with logger.info, any other failure
\* is logged with logger.warn; neither is thrown on, and manifest stays
\* undefined.
ManifestCatch(r) ==
    [manifest |-> IF r = "200" THEN "present" ELSE "undefined", threw |-> FALSE]

\* The manifest request settles with response r. Whatever the failure (404 or
\* not), the inner catch only logs; the scanning state is emitted and
\* scanDirectory(config, context, manifest, onProgress) is called and awaited.
ManifestSettles(r) ==
    /\ pc = "manifest"
    /\ manifestResponse' = r
    /\ manifest' = ManifestCatch(r).manifest
    /\ IF ManifestCatch(r).threw
       THEN /\ CatchAndRethrow(emitted)
            /\ UNCHANGED scanCalls
       ELSE /\ Emit(ScanningStart)
            /\ scanCalls' = scanCalls + 1
            /\ pc' = "scan"
            /\ UNCHANGED outcome
    /\ UNCHANGED <<isRepo, manifestFetches, progressCalls, result,
                   handleLive, disposeCalls, watcherInstalled>>
    /\ UNCHANGED <<wvars, svars, qvars, kvars, rest>>

\* scanDirectory invokes the progress callback.
ScanProgress ==
    /\ pc = "scan"
    /\ progressCalls < MaxProgress
    /\ progressCalls' = progressCalls + 1
    /\ Emit(Event("scanning", "Scanning"))
    /\ UNCHANGED <<pc, isRepo, manifestResponse, manifest, manifestFetches, scanCalls, result, outcome,
                   handleLive, disposeCalls, watcherInstalled>>
    /\ UNCHANGED <<wvars, svars, qvars, kvars, rest>>

\* Mutant of hasIndexedData: the filesProcessed disjunct is dropped.
hasIndexedData_chunksOnly(filesProcessed, chunksIndexed) == chunksIndexed > 0

\* result.chunksIndexed > 0 || result.filesProcessed > 0
hasIndexedData(filesProcessed, chunksIndexed) == chunksIndexed > 0 \/ filesProcessed > 0

\* The state emitted after a successful scan.
FinalState(filesProcessed, chunksIndexed) ==
    IF hasIndexedData(filesProcessed, chunksIndexed)
    THEN [Event("watching", "Index up-to-date") EXCEPT !.totals = <<filesProcessed, chunksIndexed>>]
    ELSE Event("idle", "No files indexed")

\* scanDirectory resolves with success: the final state is emitted and the
\* Disposable returned. The createFileWatcher call is commented out in the
\* source, so no watcher is created.
ScanSucceeds(filesProcessed, chunksIndexed) ==
    /\ pc = "scan"
    /\ result' = [state |-> "success", filesProcessed |-> filesProcessed,
                  chunksIndexed |-> chunksIndexed]
    /\ Emit(FinalState(filesProcessed, chunksIndexed))
    /\ outcome' = "handle"
    /\ handleLive' = TRUE
    /\ pc' = "done"
    /\ UNCHANGED <<isRepo, manifestResponse, manifest, manifestFetches, scanCalls, progressCalls,
                   disposeCalls, watcherInstalled>>
    /\ UNCHANGED <<wvars, svars, qvars, kvars, rest>>

\* scanDirectory resolves with success = false (or rejects): startIndexing
\* throws inside its try block.
ScanFails ==
    /\ pc = "scan"
    /\ result' = [NoResult EXCEPT !.state = "failure"]
    /\ CatchAndRethrow(emitted)
    /\ UNCHANGED <<isRepo, manifestResponse, manifest, manifestFetches, scanCalls, progressCalls,
                   handleLive, disposeCalls, watcherInstalled>>
    /\ UNCHANGED <<wvars, svars, qvars, kvars, rest>>

\* Mutant of DisposeEmits: every dispose() call runs the callback again.
DisposeEmits_everyCall(live) == <<Event("idle", "Indexing stopped")>>

\* What one dispose() call of the returned handle emits: vscode.Disposable
\* runs the wrapped dispose callback on the first call only.
DisposeEmits(live) == IF live THEN <<Event("idle", "Indexing stopped")>> ELSE <<>>

\* dispose() on the Disposable returned by startIndexing.
HandleDispose ==
    /\ outcome = "handle"
    /\ disposeCalls < MaxDispose
    /\ disposeCalls' = disposeCalls + 1
    /\ emitted' = emitted \o DisposeEmits(handleLive)
    /\ handleLive' = FALSE
    /\ UNCHANGED <<pc, isRepo, manifestResponse, manifest, manifestFetches, scanCalls, progressCalls,
                   result, outcome, watcherInstalled>>
    /\ UNCHANGED <<wvars, svars, qvars, kvars, rest>>

\* ================================================================ scanner
ScanFiles == {"a.ts", "b.ts"}
Hashes == {"h1", "h2"}
Counts == 0..MaxCount

\* Maps from a set of paths to entries: Object keyed by file path.
Maps(Entry) == UNION {[S -> Entry] : S \in SUBSET ScanFiles}

CacheEntry == [hash : Hashes, chunkCount : Counts]
ManifestEntry == [fileHash : Hashes, chunkCount : Counts]

\* createEmptyCache(gitBranch)
createEmptyCache(gitBranch) == [gitBranch |-> gitBranch, deletedFiles |-> <<>>, files |-> <<>>]

\* Mutant of shouldIndexFile: only files missing from the cache are indexed,
\* a changed hash is not looked at.
shouldIndexFile_newOnly(c, filePath, currentHash) == filePath \notin DOMAIN c.files

\* shouldIndexFile(cache, filePath, currentHash): !cached || cached.hash !== currentHash
shouldIndexFile(c, filePath, currentHash) ==
    \/ filePath \notin DOMAIN c.files
    \/ c.files[filePath].hash # currentHash

\* Mutant of updateCacheEntry: the entry is not written.
updateCacheEntry_notWritten(c, filePath, fileHash, chunkCount) == c

\* updateCacheEntry(cache, filePath, fileHash, chunkCount); lastIndexed (the
\* wall clock) is left out.
updateCacheEntry(c, filePath, fileHash, chunkCount) ==
    [c EXCEPT !.files =
        [p \in DOMAIN c.files \cup {filePath} |->
            IF p = filePath THEN [hash |-> fileHash, chunkCount |-> chunkCount]
            ELSE c.files[p]]]

\* A set of paths as a list in the scan's deterministic order.
PathList(S) ==
    (IF "a.ts" \in S THEN <<"a.ts">> ELSE <<>>)
    \o (IF "b.ts" \in S THEN <<"b.ts">> ELSE <<>>)

\* Candidates in the scan's deterministic order.
CandidateList(local) ==
    (IF local["a.ts"] # "absent" THEN <<"a.ts">> ELSE <<>>)
    \o (IF local["b.ts"] # "absent" THEN <<"b.ts">> ELSE <<>>)

\* removeCacheEntry(cache, filePath)
removeCacheEntry(c, filePath) ==
    [c EXCEPT !.files = [p \in DOMAIN c.files \ {filePath} |-> c.files[p]]]

RECURSIVE removeEntries(_, _)
removeEntries(c, paths) ==
    IF paths = <<>> THEN c
    ELSE removeEntries(removeCacheEntry(c, Head(paths)), Tail(paths))

ScanBranches == {"main", "feature/x"}

\* const isMainBranch = currentBranch === "main"
isMainBranch(branch) == branch = "main"

\* GitDiff {added, modified, deleted}
NoDiff == [added |-> <<>>, modified |-> <<>>, deleted |-> <<>>]

\* The diff of a feature branch whose files have the given status letters
\* ("A", "M", "D", or "-" for a file the diff does not list).
DiffOf(status) ==
    [added |-> PathList({f \in ScanFiles : status[f] = "A"}),
     modified |-> PathList({f \in ScanFiles : status[f] = "M"}),
     deleted |-> PathList({f \in ScanFiles : status[f] = "D"})]

\* Status letters that agree with the working tree: an added or modified
\* file exists, a deleted one does not.
DiffStatuses(local) ==
    {st \in [ScanFiles -> {"-", "A", "M", "D"}] :
        \A f \in ScanFiles :
            /\ st[f] \in {"A", "M"} => local[f] # "absent"
            /\ st[f] = "D" => local[f] = "absent"}

\* Mutant of FeatureCandidates: the deleted files are scanned as well.
FeatureCandidates_withDeleted(d) == d.added \o d.modified \o d.deleted

\* filesToIndex = [...diff.added, ...diff.modified]
FeatureCandidates(d) == d.added \o d.modified

\* One scan on a base branch, from any cache and any manifest.
ScanInit ==
    /\ scanPc = "enumerate"
    /\ scanBranch = "main"
    /\ diff = NoDiff
    /\ localFiles \in [ScanFiles -> Hashes \cup {"absent"}]
    /\ cache0 \in {[createEmptyCache("main") EXCEPT !.files = m] : m \in Maps(CacheEntry)}
    /\ cache = cache0
    /\ serverManifest \in
        {[present |-> FALSE, files |-> <<>>]}
        \cup {[present |-> TRUE, files |-> m] : m \in Maps(ManifestEntry)}
    /\ server = serverManifest.files
    /\ pending = <<>>
    /\ toIndex = <<>>
    /\ uploaded = {}
    /\ deleted = {}
    /\ scanChunks = 0
    /\ runs = <<>>

ScanOff ==
    /\ scanPc = "off"
    /\ scanBranch = "main"
    /\ diff = NoDiff
    /\ localFiles = [f \in ScanFiles |-> "absent"]
    /\ cache0 = createEmptyCache("main")
    /\ cache = cache0
    /\ serverManifest = [present |-> FALSE, files |-> <<>>]
    /\ server = <<>>
    /\ pending = <<>>
    /\ toIndex = <<>>
    /\ uploaded = {}
    /\ deleted = {}
    /\ scanChunks = 0
    /\ runs = <<>>

\* Entries of a cache or of the remote index as found by a first Start run;
\* the chunk counts of entries that exist before the run are 0.
EntryMaps ==
    UNION {[S -> {[hash |-> h, chunkCount |-> 0] : h \in Hashes}] : S \in SUBSET ScanFiles}

ManifestOf(m) ==
    [p \in DOMAIN m |-> [fileHash |-> m[p].hash, chunkCount |-> m[p].chunkCount]]

\* A first Start run on a base or a feature branch. The cache of a feature
\* branch may carry a deleted-files list of an earlier scan.
RescanInit ==
    /\ scanPc = "enumerate"
    /\ scanBranch \in ScanBranches
    /\ localFiles \in [ScanFiles -> Hashes \cup {"absent"}]
    /\ diff \in IF isMainBranch(scanBranch) THEN {NoDiff}
                ELSE {DiffOf(st) : st \in DiffStatuses(localFiles)}
    /\ cache0 \in {[createEmptyCache(scanBranch) EXCEPT !.files = m, !.deletedFiles = d] :
                    m \in EntryMaps,
                    d \in IF isMainBranch(scanBranch) THEN {<<>>} ELSE {<<>>, <<"a.ts">>}}
    /\ cache = cache0
    /\ serverManifest \in
        {[present |-> FALSE, files |-> <<>>]}
        \cup {[present |-> TRUE, files |-> ManifestOf(m)] : m \in EntryMaps}
    /\ server = serverManifest.files
    /\ pending = <<>>
    /\ toIndex = <<>>
    /\ uploaded = {}
    /\ deleted = {}
    /\ scanChunks = 0
    /\ runs = <<>>

\* Candidates are enumerated: every supported workspace file on main; on any
\* other branch the files the diff against main lists as added or modified,
\* and clientCache.deletedFiles = diff.deleted.
ScanEnumerate ==
    /\ scanPc = "enumerate"
    /\ IF isMainBranch(scanBranch)
       THEN /\ pending' = CandidateList(localFiles)
            /\ UNCHANGED cache
       ELSE /\ pending' = FeatureCandidates(diff)
            /\ cache' = [cache EXCEPT !.deletedFiles = diff.deleted]
    /\ scanPc' = "reconcile"
    /\ UNCHANGED <<scanBranch, diff, server, localFiles, cache0, serverManifest, toIndex,
                   uploaded, deleted, scanChunks, runs>>
    /\ UNCHANGED <<wvars, ovars, qvars, kvars, rest>>

\* The manifest has an entry for filePath with the file's current hash.
ManifestMatches(m, filePath, fileHash) ==
    /\ m.present
    /\ filePath \in DOMAIN m.files
    /\ m.files[filePath].fileHash = fileHash

\* Three-way reconcile of the next candidate: unchanged against the cache ->
\* skip; else an equal manifest entry -> cache entry from the manifest, skip;
\* else enqueue for chunking.
ScanReconcile ==
    /\ scanPc = "reconcile"
    /\ pending # <<>>
    /\ LET f == Head(pending)
           h == localFiles[f]
       IN  IF ~shouldIndexFile(cache, f, h)
           THEN UNCHANGED <<cache, toIndex>>
           ELSE IF ManifestMatches(serverManifest, f, h)
           THEN /\ cache' = updateCacheEntry(cache, f, h, serverManifest.files[f].chunkCount)
                /\ UNCHANGED toIndex
           ELSE /\ toIndex' = Append(toIndex, f)
                /\ UNCHANGED cache
    /\ pending' = Tail(pending)
    /\ UNCHANGED <<scanPc, scanBranch, diff, server, localFiles, cache0, serverManifest,
                   uploaded, deleted, scanChunks, runs>>
    /\ UNCHANGED <<wvars, ovars, qvars, kvars, rest>>

\* Base branch only: the manifest's files that are absent from the live
\* listing.
StaleFiles ==
    IF isMainBranch(scanBranch) /\ serverManifest.present
    THEN {f \in DOMAIN serverManifest.files : localFiles[f] = "absent"}
    ELSE {}

\* Every candidate is reconciled: the stale files are deleted on the server
\* and removed from the cache, then chunking and upload start.
ScanStartUpload ==
    /\ scanPc = "reconcile"
    /\ pending = <<>>
    /\ deleted' = deleted \cup StaleFiles
    /\ server' = [p \in DOMAIN server \ StaleFiles |-> server[p]]
    /\ cache' = removeEntries(cache, PathList(StaleFiles))
    /\ scanPc' = "upload"
    /\ UNCHANGED <<scanBranch, diff, localFiles, cache0, serverManifest, pending, toIndex,
                   uploaded, scanChunks, runs>>
    /\ UNCHANGED <<wvars, ovars, qvars, kvars, rest>>

\* The remote index after the chunks of a file are upserted; a file of no
\* chunks leaves it as it is.
Upserted(srv, filePath, fileHash, n) ==
    IF n = 0 THEN srv
    ELSE [p \in DOMAIN srv \cup {filePath} |->
            IF p = filePath THEN [fileHash |-> fileHash, chunkCount |-> n] ELSE srv[p]]

\* The next enqueued file is chunked (into n chunks) and upserted, and
\* client_cache.files[path] = {hash, now, len(chunks)}.
ScanUpload ==
    /\ scanPc = "upload"
    /\ toIndex # <<>>
    /\ \E n \in Counts :
        /\ cache' = updateCacheEntry(cache, Head(toIndex), localFiles[Head(toIndex)], n)
        /\ server' = Upserted(server, Head(toIndex), localFiles[Head(toIndex)], n)
        /\ scanChunks' = scanChunks + n
    /\ uploaded' = uploaded \cup {Head(toIndex)}
    /\ toIndex' = Tail(toIndex)
    /\ UNCHANGED <<scanPc, scanBranch, diff, localFiles, cache0, serverManifest, pending,
                   deleted, runs>>
    /\ UNCHANGED <<wvars, ovars, qvars, kvars, rest>>

\* All enqueued files are uploaded: the scan returns its result.
ScanFinish ==
    /\ scanPc = "upload"
    /\ toIndex = <<>>
    /\ scanPc' = "done"
    /\ UNCHANGED <<scanBranch, diff, server, localFiles, cache0, cache, serverManifest,
                   pending, toIndex, uploaded, deleted, scanChunks, runs>>
    /\ UNCHANGED <<wvars, ovars, qvars, kvars, rest>>

\* The ScanResult: filesProcessed counts the files that were chunked and
\* upserted (a skipped file is not counted), chunksIndexed their chunks.
ScanResultOf(files, chunkTotal) ==
    [filesProcessed |-> Cardinality(files), chunksIndexed |-> chunkTotal]

\* startIndexing receives the scan's result and emits its final state.
StartSettles ==
    /\ scanPc = "done"
    /\ LET r == ScanResultOf(uploaded, scanChunks)
       IN  runs' = Append(runs, [uploaded |-> uploaded, deleted |-> deleted,
                                 final |-> FinalState(r.filesProcessed, r.chunksIndexed)])
    /\ scanPc' = "settled"
    /\ UNCHANGED <<scanBranch, diff, server, localFiles, cache0, cache, serverManifest,
                   pending, toIndex, uploaded, deleted, scanChunks>>
    /\ UNCHANGED <<wvars, ovars, qvars, kvars, rest>>

\* Start is run again on the unchanged workspace: the manifest request
\* settles as it did before, now with the remote index as the first run left
\* it, and the scan starts from the cache the first run saved.
StartAgain ==
    /\ scanPc = "settled"
    /\ Len(runs) = 1
    /\ serverManifest' = IF serverManifest.present
                         THEN [present |-> TRUE, files |-> server]
                         ELSE serverManifest
    /\ cache0' = cache
    /\ pending' = <<>>
    /\ toIndex' = <<>>
    /\ uploaded' = {}
    /\ deleted' = {}
    /\ scanChunks' = 0
    /\ scanPc' = "enumerate"
    /\ UNCHANGED <<scanBranch, diff, server, localFiles, cache, runs>>
    /\ UNCHANGED <<wvars, ovars, qvars, kvars, rest>>

\* ================================================================= search
\* Branches the workspace may be on: the literal base names in two spellings,
\* the remote's default branch, a feature branch.
SearchBranches == {"main", "Main", "development", "canary", "feature/x"}
NoBranch == "<throws>"

\* Branches git diff and git rev-parse --verify are asked about.
DiffBases == {"main", "develop", "master", "canary"}

Queries == {"needle", "other"}
SearchPaths == {"undefined", "src"}

\* Outcome of getGitDiff: it throws, or returns a GitDiff with this deleted list.
DiffFails == [ok |-> FALSE, deleted |-> <<>>]
DiffOutcomes == {DiffFails} \cup {[ok |-> TRUE, deleted |-> l] : l \in {<<>>, <<"u.ts">>}}

\* Mutant of isBaseBranch: the names are compared as written.
isBaseBranch_caseSensitive(branchName, defaultBranch) ==
    \/ branchName \in {"main", "master", "develop", "development"}
    \/ /\ defaultBranch # "null"
       /\ defaultBranch = branchName

\* isBaseBranch(branchName, workspacePath): defaultBranch is what
\* getDefaultBranchFromRemote(workspacePath) returns.
isBaseBranch(branchName, defaultBranch) ==
    \/ toLowerCase(branchName) \in {"main", "master", "develop", "development"}
    \/ /\ defaultBranch # "null"
       /\ toLowerCase(defaultBranch) = toLowerCase(branchName)

\* getBaseBranch(workspacePath)
getBaseBranch(defaultBranch, verified) ==
    IF defaultBranch # "null" /\ defaultBranch \in verified THEN defaultBranch
    ELSE IF "main" \in verified THEN "main"
    ELSE IF "develop" \in verified THEN "develop"
    ELSE IF "master" \in verified THEN "master"
    ELSE "main"

SearchInit ==
    /\ searchPc = "start"
    /\ searchArgs \in [query : Queries, path : SearchPaths,
                       organizationId : {"org-1"}, projectId : {"proj-1"}]
    /\ curBranch \in SearchBranches \cup {NoBranch}
    /\ remoteDefault \in {"null", "main", "canary"}
    /\ verifies \in {v \in SUBSET DiffBases : curBranch \in DiffBases => curBranch \in v}
    /\ gitDiff \in {g \in [DiffBases -> DiffOutcomes] :
                        \A b \in DiffBases : b \notin verifies => g[b] = DiffFails}
    /\ requests = <<>>
    /\ searchOutcome = "pending"

SearchOff ==
    /\ searchPc = "off"
    /\ searchArgs = [query |-> "needle", path |-> "undefined",
                     organizationId |-> "org-1", projectId |-> "proj-1"]
    /\ curBranch = "main"
    /\ remoteDefault = "null"
    /\ verifies = {"main"}
    /\ gitDiff = [b \in DiffBases |-> DiffFails]
    /\ requests = <<>>
    /\ searchOutcome = "pending"

\* Mutant of SearchExclusions: a failing git diff is not caught.
SearchExclusions_rethrows(gitBranch, d) ==
    IF gitBranch \notin {"main", "master", "develop"}
    THEN [threw |-> ~d.ok, excludeFiles |-> d.deleted]
    ELSE [threw |-> FALSE, excludeFiles |-> <<>>]

\* let excludeFiles = []; unless the branch is literally main, master or
\* develop: try { excludeFiles = getGitDiff(gitBranch, "main").deleted }
\* catch { warn }. d is the outcome of that getGitDiff call.
SearchExclusions(gitBranch, d) ==
    IF gitBranch \notin {"main", "master", "develop"}
    THEN [threw |-> FALSE, excludeFiles |-> IF d.ok THEN d.deleted ELSE <<>>]
    ELSE [threw |-> FALSE, excludeFiles |-> <<>>]

\* The argument of apiSearchCode.
SearchRequest(gitBranch, excludeFiles) ==
    [query |-> searchArgs.query,
     organizationId |-> searchArgs.organizationId,
     projectId |-> searchArgs.projectId,
     preferBranch |-> gitBranch,
     fallbackBranch |-> "main",
     excludeFiles |-> excludeFiles,
     path |-> searchArgs.path]

\* getCurrentBranch throws: the catch block rethrows, no request is made.
SearchBranchFails ==
    /\ searchPc = "start"
    /\ curBranch = NoBranch
    /\ searchOutcome' = "GitError"
    /\ searchPc' = "done"
    /\ UNCHANGED <<searchArgs, curBranch, remoteDefault, verifies, gitDiff, requests>>
    /\ UNCHANGED <<wvars, ovars, svars, kvars, rest>>

\* The branch is known: the exclusions are computed and apiSearchCode is
\* called.
SearchSendsRequest ==
    /\ searchPc = "start"
    /\ curBranch # NoBranch
    /\ LET x == SearchExclusions(curBranch, gitDiff["main"])
       IN  IF x.threw
           THEN /\ searchOutcome' = "GitError"
                /\ searchPc' = "done"
                /\ UNCHANGED requests
           ELSE /\ requests' = Append(requests, SearchRequest(curBranch, x.excludeFiles))
                /\ searchPc' = "request"
                /\ UNCHANGED searchOutcome
    /\ UNCHANGED <<searchArgs, curBranch, remoteDefault, verifies, gitDiff>>
    /\ UNCHANGED <<wvars, ovars, svars, kvars, rest>>

\* apiSearchCode resolves: its results are returned.
SearchReturns ==
    /\ searchPc = "request"
    /\ searchOutcome' = "results"
    /\ searchPc' = "done"
    /\ UNCHANGED <<searchArgs, curBranch, remoteDefault, verifies, gitDiff, requests>>
    /\ UNCHANGED <<wvars, ovars, svars, kvars, rest>>

\* apiSearchCode rejects: the catch block rethrows the error.
SearchRemoteFails ==
    /\ searchPc = "request"
    /\ searchOutcome' = "RemoteError"
    /\ searchPc' = "done"
    /\ UNCHANGED <<searchArgs, curBranch, remoteDefault, verifies, gitDiff, requests>>
    /\ UNCHANGED <<wvars, ovars, svars, kvars, rest>>

\* ================================================================ chunker
\* A string is a sequence of characters; "\n" is the newline character.
Chars == {"a", "b", "\n"}

RECURSIVE StringsOfLen(_)
StringsOfLen(n) ==
    IF n = 0 THEN {<<>>}
    ELSE {Append(t, ch) : t \in StringsOfLen(n - 1), ch \in Chars}

\* File contents of up to MaxContentLen characters.
Contents == UNION {StringsOfLen(n) : n \in 0..MaxContentLen}

\* Index of the first newline of s, 0 when there is none.
RECURSIVE indexOfNewline(_, _)
indexOfNewline(str, k) ==
    IF k > Len(str) THEN 0
    ELSE IF str[k] = "\n" THEN k
    ELSE indexOfNewline(str, k + 1)

\* content.split("\n")
RECURSIVE split(_)
split(str) ==
    LET k == indexOfNewline(str, 1)
    IN  IF k = 0 THEN <<str>>
        ELSE <<SubSeq(str, 1, k - 1)>> \o split(SubSeq(str, k + 1, Len(str)))

\* lines.join("\n")
RECURSIVE join(_)
join(ls) ==
    IF ls = <<>> THEN <<>>
    ELSE IF Len(ls) = 1 THEN ls[1]
    ELSE ls[1] \o <<"\n">> \o join(Tail(ls))

\* currentChunk.reduce((sum, l) => sum + l.length + 1, 0)
RECURSIVE chunkChars(_)
chunkChars(ls) ==
    IF ls = <<>> THEN 0
    ELSE Len(Head(ls)) + 1 + chunkChars(Tail(ls))

\* Mutant of slice: the first lines are kept instead of the last ones.
slice_head(ls, from) == SubSeq(ls, 1, Len(ls) - from)

\* array.slice(from)
slice(ls, from) == SubSeq(ls, from + 1, Len(ls))

\* Mutant of startAfterOverlap: the start line is one too small.
startAfterOverlap_early(i, keptLength) == i - keptLength

\* startLine = i - (currentChunk.length - 1), currentChunk being the lines
\* kept as overlap
startAfterOverlap(i, keptLength) == i - (keptLength - 1)

Max(a, b) == IF a >= b THEN a ELSE b

\* Number.prototype.toString in a template literal (decimal digits).
RECURSIVE decimal(_)
decimal(n) ==
    LET digit == <<"0", "1", "2", "3", "4", "5", "6", "7", "8", "9">>[(n % 10) + 1]
    IN  IF n < 10 THEN <<digit>> ELSE Append(decimal(n \div 10), digit)

\* createHash("sha256").update(data).digest("hex"), taken as injective: the
\* digest stands for the data it was computed from.
sha256(data) == [sha256 |-> data]

\* uuidv5(name, namespace), taken as injective.
uuidv5(name, namespace) == [uuidv5 |-> <<namespace, name>>]

\* sha256 of `${filePath}-${startLine}-${endLine}`
generateChunkHash(filePath, fromLine, toLine) ==
    sha256(filePath \o <<"-">> \o decimal(fromLine) \o <<"-">> \o decimal(toLine))

\* Mutant of generateChunkId: the branch is left out of the id.
generateChunkId_withoutBranch(chunkHash, organizationId, gitBranch) ==
    uuidv5(sha256(<<chunkHash>>), organizationId)

\* uuidv5(sha256(`${chunkHash}-${gitBranch}`), organizationId); the digest
\* has a fixed length, so the template is the pair of its two parts.
generateChunkId(chunkHash, organizationId, gitBranch) ==
    uuidv5(sha256(<<chunkHash, "-", gitBranch>>), organizationId)

\* Mutant of createChunk: the project is part of the id.
createChunk_idPerProject(chunkLines, fromLine, toLine, input) ==
    [id |-> generateChunkId(generateChunkHash(input.filePath, fromLine, toLine),
                            <<input.organizationId, input.projectId>>, input.gitBranch),
     organizationId |-> input.organizationId,
     projectId |-> input.projectId,
     filePath |-> input.filePath,
     codeChunk |-> join(chunkLines),
     startLine |-> fromLine,
     endLine |-> toLine,
     chunkHash |-> generateChunkHash(input.filePath, fromLine, toLine),
     gitBranch |-> input.gitBranch,
     isBaseBranch |-> input.isBaseBranch]

\* createChunk(lines, startLine, endLine, filePath, fileHash, organizationId,
\* projectId, gitBranch, isBaseBranch) with the call's arguments in input.
createChunk(chunkLines, fromLine, toLine, input) ==
    [id |-> generateChunkId(generateChunkHash(input.filePath, fromLine, toLine),
                            input.organizationId, input.gitBranch),
     organizationId |-> input.organizationId,
     projectId |-> input.projectId,
     filePath |-> input.filePath,
     codeChunk |-> join(chunkLines),
     startLine |-> fromLine,
     endLine |-> toLine,
     chunkHash |-> generateChunkHash(input.filePath, fromLine, toLine),
     gitBranch |-> input.gitBranch,
     isBaseBranch |-> input.isBaseBranch]

\* ChunkerConfig values handed to chunkFile.
ChunkerConfigs == [maxChunkChars : 1..4, minChunkChars : 0..3, overlapLines : 0..2]

\* File paths, branches and organizations of chunkFile calls.
ChunkPaths == {<<"a">>, <<"a", "-", "1">>}
ChunkBranches == {"main", "feature/x"}
ChunkOrgs == {"org-1", "org-2"}

\* The arguments other than content and config.
ChunkMetas ==
    [filePath : ChunkPaths, fileHash : {"fh", "fh-2"}, organizationId : ChunkOrgs,
     projectId : {"proj-1", "proj-2"}, gitBranch : ChunkBranches, isBaseBranch : BOOLEAN]

ChunkArgs(meta, content, config) ==
    [filePath |-> meta.filePath, content |-> content, fileHash |-> meta.fileHash,
     organizationId |-> meta.organizationId, projectId |-> meta.projectId,
     gitBranch |-> meta.gitBranch, isBaseBranch |-> meta.isBaseBranch, config |-> config]

\* const lines = content.split("\n")
Lines == split(chunkInput.content)

\* chunkFile is entered with the given arguments.
ChunkEntered(args) ==
    /\ chunkPc = "loop"
    /\ chunkInput = args
    /\ chunkI = 0
    /\ currentChunk = <<>>
    /\ currentChunkChars = 0
    /\ startLine = 1
    /\ chunks = <<>>
    /\ prevChunks = <<>>

\* One call of chunkFile on any content under any configuration.
ChunkInit ==
    \E content \in Contents, config \in ChunkerConfigs :
        ChunkEntered(ChunkArgs([filePath |-> <<"a">>, fileHash |-> "fh",
                                organizationId |-> "org-1", projectId |-> "proj-1",
                                gitBranch |-> "main", isBaseBranch |-> TRUE],
                               content, config))

\* Files and a configuration for calls that are compared by chunk id.
IdContents == {<<>>, <<"a", "b">>, <<"b", "a">>, <<"a", "\n", "b", "\n", "a">>}
IdConfig == [maxChunkChars |-> 3, minChunkChars |-> 1, overlapLines |-> 1]

ChunkIdInit ==
    \E meta \in ChunkMetas, content \in IdContents :
        ChunkEntered(ChunkArgs(meta, content, IdConfig))

ChunkOff ==
    /\ chunkPc = "off"
    /\ chunkInput = ChunkArgs([filePath |-> <<"a">>, fileHash |-> "fh",
                               organizationId |-> "org-1", projectId |-> "proj-1",
                               gitBranch |-> "main", isBaseBranch |-> TRUE],
                              <<>>, IdConfig)
    /\ chunkI = 0
    /\ currentChunk = <<>>
    /\ currentChunkChars = 0
    /\ startLine = 1
    /\ chunks = <<>>
    /\ prevChunks = <<>>

\* One iteration of the for loop over the lines.
ChunkLine ==
    /\ chunkPc = "loop"
    /\ chunkI < Len(Lines)
    /\ LET line == Lines[chunkI + 1]
           lineLength == Len(line) + 1
           config == chunkInput.config
           finalize == /\ currentChunkChars + lineLength > config.maxChunkChars
                       /\ Len(currentChunk) > 0
                       /\ currentChunkChars >= config.minChunkChars
           overlapStart == Max(0, Len(currentChunk) - config.overlapLines)
           kept == IF finalize THEN slice(currentChunk, overlapStart) ELSE currentChunk
       IN  /\ chunks' = IF finalize
                        THEN Append(chunks, createChunk(currentChunk, startLine, chunkI,
                                                        chunkInput))
                        ELSE chunks
           /\ startLine' = IF finalize THEN startAfterOverlap(chunkI, Len(kept))
                           ELSE startLine
           /\ currentChunk' = Append(kept, line)
           /\ currentChunkChars' =
                (IF finalize THEN chunkChars(kept) ELSE currentChunkChars) + lineLength
    /\ chunkI' = chunkI + 1
    /\ UNCHANGED <<chunkPc, chunkInput, prevChunks>>
    /\ UNCHANGED <<wvars, ovars, svars, qvars, rest>>

\* Mutant of ChunkReturn: the lines accumulated when the loop ends are not
\* finalized.
ChunkReturn_dropsRemainder ==
    /\ chunkPc = "loop"
    /\ chunkI = Len(Lines)
    /\ chunkPc' = "done"
    /\ UNCHANGED <<chunks, chunkInput, chunkI, currentChunk, currentChunkChars, startLine,
                   prevChunks>>
    /\ UNCHANGED <<wvars, ovars, svars, qvars, rest>>

\* After the loop: the last chunk is finalized if it meets the minimum size,
\* and chunks is returned.
ChunkReturn ==
    /\ chunkPc = "loop"
    /\ chunkI = Len(Lines)
    /\ chunks' = IF Len(currentChunk) > 0
                    /\ currentChunkChars >= chunkInput.config.minChunkChars
                 THEN Append(chunks, createChunk(currentChunk, startLine, Len(Lines),
                                                 chunkInput))
                 ELSE chunks
    /\ chunkPc' = "done"
    /\ UNCHANGED <<chunkInput, chunkI, currentChunk, currentChunkChars, startLine, prevChunks>>
    /\ UNCHANGED <<wvars, ovars, svars, qvars, rest>>

\* chunkFile is called again with the same configuration on a file of
\* IdContents, with other path, hash, project, branch or organization
\* arguments.
ChunkAgain ==
    /\ chunkPc = "done"
    /\ prevChunks = <<>>
    /\ chunks # <<>>
    /\ \E meta \in ChunkMetas, content \in IdContents :
        chunkInput' = ChunkArgs(meta, content, chunkInput.config)
    /\ prevChunks' = chunks
    /\ chunks' = <<>>
    /\ chunkI' = 0
    /\ currentChunk' = <<>>
    /\ currentChunkChars' = 0
    /\ startLine' = 1
    /\ chunkPc' = "loop"
    /\ UNCHANGED <<wvars, ovars, svars, qvars, rest>>


\* ============================================================ cache store
WorkspacePath == "/ws"
CacheBranches == {"main", "feature/x"}

\* getCachePath(context, workspacePath, gitBranch): the file name
\* managed-index-cache-${workspaceHash}-${branchHash}.json
getCachePath_workspaceOnly(workspacePath, gitBranch) ==
    [workspaceHash |-> sha256(workspacePath), branchHash |-> sha256("")]

getCachePath(workspacePath, gitBranch) ==
    [workspaceHash |-> sha256(workspacePath), branchHash |-> sha256(gitBranch)]

CacheFileNames == {getCachePath(WorkspacePath, b) : b \in CacheBranches}

\* What a cache file can hold: no file, bytes that are not JSON, or a JSON
\* object with the listed keys.
AbsentFile == [kind |-> "absent"]
TextFile == [kind |-> "text"]
EmptyObject == [kind |-> "object", keys |-> {}, gitBranch |-> "", deletedFiles |-> <<>>,
                files |-> <<>>]

\* The members of an object in key order, as JSON writes them.
Members(files) ==
    LET keys == PathList(DOMAIN files)
    IN  [k \in 1..Len(keys) |-> [key |-> keys[k], value |-> files[keys[k]]]]

\* The object a list of members is read back as.
FromMembers(members) ==
    [p \in {members[k].key : k \in 1..Len(members)} |->
        members[CHOOSE k \in 1..Len(members) : members[k].key = p].value]

\* JSON.stringify(cache), as safeWriteJson writes it.
JSONstringify(c) ==
    [kind |-> "object", keys |-> {"gitBranch", "deletedFiles", "files"},
     gitBranch |-> c.gitBranch, deletedFiles |-> c.deletedFiles, files |-> Members(c.files)]

\* JSON.parse(cacheData.toString())
JSONparse(doc) ==
    IF doc.kind # "object" THEN [threw |-> TRUE]
    ELSE [threw |-> FALSE, keys |-> doc.keys,
          value |-> [gitBranch |-> doc.gitBranch, deletedFiles |-> doc.deletedFiles,
                     files |-> FromMembers(doc.files)]]

\* if (!cache.gitBranch || !cache.files) throw new Error("Invalid cache structure")
validCacheStructure(parsed) ==
    /\ "gitBranch" \in parsed.keys
    /\ parsed.value.gitBranch # ""
    /\ "files" \in parsed.keys

\* The value held before any load.
NoCache == [gitBranch |-> "<none>", deletedFiles |-> <<>>, files |-> <<>>]

\* Mutant of loadCatch: the failure is thrown on to the caller.
loadCatch_rethrows(gitOk, branch, how) == [threw |-> TRUE, how |-> how, cache |-> NoCache]

\* The catch block of loadClientCache: getCurrentBranch is called again and
\* an empty cache for that branch is returned; when getCurrentBranch throws
\* the catch block throws.
loadCatch(gitOk, branch, how) ==
    IF gitOk THEN [threw |-> FALSE, how |-> how, cache |-> createEmptyCache(branch)]
    ELSE [threw |-> TRUE, how |-> "gitFails", cache |-> NoCache]

\* loadClientCache(context, workspacePath) on the files d, with the branch
\* getCurrentBranch reports (gitOk: it does not throw) and readOk: readFile
\* does not fail for another reason than a missing file.
loadClientCache(d, branch, gitOk, readOk) ==
    IF ~gitOk THEN loadCatch(gitOk, branch, "gitFails")
    ELSE LET doc == d[getCachePath(WorkspacePath, branch)]
             parsed == JSONparse(doc)
         IN  IF doc.kind = "absent" THEN loadCatch(gitOk, branch, "missing")
             ELSE IF ~readOk THEN loadCatch(gitOk, branch, "readFails")
             ELSE IF parsed.threw THEN loadCatch(gitOk, branch, "parseFails")
             ELSE IF ~validCacheStructure(parsed) THEN loadCatch(gitOk, branch, "invalid")
             ELSE [threw |-> FALSE, how |-> "ok", cache |-> parsed.value]

\* Mutant of saveClientCache: nothing is written.
saveClientCache_notWritten(d, c, writeOk) == d

\* saveClientCache(context, workspacePath, cache) on the files d: the file
\* named after cache.gitBranch is replaced as a whole, or, when the write
\* fails, left as it was; nothing is thrown.
saveClientCache(d, c, writeOk) ==
    IF writeOk THEN [d EXCEPT ![getCachePath(WorkspacePath, c.gitBranch)] = JSONstringify(c)]
    ELSE d

\* addDeletedFile(cache, filePath)
addDeletedFile(c, filePath) ==
    IF \E k \in 1..Len(c.deletedFiles) : c.deletedFiles[k] = filePath THEN c
    ELSE [c EXCEPT !.deletedFiles = Append(c.deletedFiles, filePath)]

\* removeDeletedFile(cache, filePath)
removeDeletedFile(c, filePath) ==
    [c EXCEPT !.deletedFiles = SelectSeq(c.deletedFiles, LAMBDA f : f # filePath)]

NotSaved == [some |-> FALSE, cache |-> NoCache]
NoOp == [op |-> "none"]

CacheInit ==
    /\ disk \in [CacheFileNames -> {AbsentFile, TextFile, EmptyObject}]
    /\ headBranch \in CacheBranches
    /\ held = NoCache
    /\ lastSaved = [b \in CacheBranches |-> NotSaved]
    /\ lastOp = NoOp
    /\ prevOp = NoOp

CacheOff ==
    /\ disk = [f \in CacheFileNames |-> AbsentFile]
    /\ headBranch = "main"
    /\ held = NoCache
    /\ lastSaved = [b \in CacheBranches |-> NotSaved]
    /\ lastOp = NoOp
    /\ prevOp = NoOp

\* What is remembered of an operation once another one has run.
Brief(o) == IF o.op = "save" THEN [op |-> "save", wrote |-> o.wrote, cache |-> o.cache]
            ELSE IF o.op = "clear" THEN [op |-> "clear", wrote |-> o.wrote]
            ELSE [op |-> o.op]

\* git checkout b in the workspace.
Checkout ==
    /\ \E b \in CacheBranches \ {headBranch} : headBranch' = b
    /\ lastOp' = [op |-> "checkout"]
    /\ prevOp' = Brief(lastOp)
    /\ UNCHANGED <<disk, held, lastSaved>>
    /\ UNCHANGED notC

\* A caller loads the cache of the workspace.
CacheLoad ==
    /\ \E gitOk \in BOOLEAN, readOk \in BOOLEAN :
        LET r == loadClientCache(disk, headBranch, gitOk, readOk)
        IN  /\ held' = IF r.threw THEN held ELSE r.cache
            /\ lastOp' = [op |-> "load", branch |-> headBranch, how |-> r.how,
                          threw |-> r.threw, cache |-> r.cache]
    /\ prevOp' = Brief(lastOp)
    /\ UNCHANGED <<disk, headBranch, lastSaved>>
    /\ UNCHANGED notC

\* The caller changes the cache it holds with one of the pure helpers.
CacheMutate ==
    /\ held # NoCache
    /\ \/ \E h \in Hashes : held' = updateCacheEntry(held, "a.ts", h, 1)
       \/ held' = removeCacheEntry(held, "a.ts")
       \/ held' = addDeletedFile(held, "b.ts")
       \/ held' = removeDeletedFile(held, "b.ts")
    /\ held' # held
    /\ lastOp' = [op |-> "mutate"]
    /\ prevOp' = Brief(lastOp)
    /\ UNCHANGED <<disk, headBranch, lastSaved>>
    /\ UNCHANGED notC

\* The caller saves the cache it holds.
CacheSave ==
    /\ held # NoCache
    /\ \E writeOk \in BOOLEAN :
        /\ disk' = saveClientCache(disk, held, writeOk)
        /\ lastSaved' = IF writeOk
                        THEN [lastSaved EXCEPT ![held.gitBranch] =
                                                  [some |-> TRUE, cache |-> held]]
                        ELSE lastSaved
        /\ lastOp' = [op |-> "save", wrote |-> writeOk, threw |-> FALSE, cache |-> held]
    /\ prevOp' = Brief(lastOp)
    /\ UNCHANGED <<headBranch, held>>
    /\ UNCHANGED notC

\* Mutant of CacheClear: the cache files of all branches of the workspace
\* are reset.
CacheClear_allBranches ==
    /\ \E gitOk \in BOOLEAN, writeOk \in BOOLEAN :
        LET wrote == gitOk /\ writeOk
        IN  /\ disk' = IF wrote
                       THEN [f \in CacheFileNames |->
                               IF \E b \in CacheBranches : f = getCachePath(WorkspacePath, b)
                               THEN JSONstringify(createEmptyCache(
                                        CHOOSE b \in CacheBranches :
                                            f = getCachePath(WorkspacePath, b)))
                               ELSE disk[f]]
                       ELSE disk
            /\ lastSaved' = IF wrote
                            THEN [b \in CacheBranches |->
                                    [some |-> TRUE, cache |-> createEmptyCache(b)]]
                            ELSE lastSaved
            /\ lastOp' = [op |-> "clear", wrote |-> wrote, threw |-> FALSE]
    /\ prevOp' = Brief(lastOp)
    /\ UNCHANGED <<headBranch, held>>
    /\ UNCHANGED notC

\* clearClientCache(context, workspacePath): an empty cache is written for
\* the current branch; a failure of getCurrentBranch or of the write is
\* logged.
CacheClear ==
    /\ \E gitOk \in BOOLEAN, writeOk \in BOOLEAN :
        LET wrote == gitOk /\ writeOk
            emptyCache == createEmptyCache(headBranch)
        IN  /\ disk' = IF wrote THEN saveClientCache(disk, emptyCache, TRUE) ELSE disk
            /\ lastSaved' = IF wrote
                            THEN [lastSaved EXCEPT ![headBranch] =
                                                      [some |-> TRUE, cache |-> emptyCache]]
                            ELSE lastSaved
            /\ lastOp' = [op |-> "clear", wrote |-> wrote, threw |-> FALSE]
    /\ prevOp' = Brief(lastOp)
    /\ UNCHANGED <<headBranch, held>>
    /\ UNCHANGED notC


\* ======================================================== getIndexerState
\* Object.values(cache.files).reduce((sum, file) => sum + file.chunkCount, 0)
RECURSIVE sumChunkCounts(_, _)
sumChunkCounts(files, keys) ==
    IF keys = <<>> THEN 0
    ELSE files[Head(keys)].chunkCount + sumChunkCounts(files, Tail(keys))

\* Mutant of cacheIsCurrent: the cache is taken as current whatever its
\* branch.
cacheIsCurrent_always(c, gitBranch) == TRUE

\* cache.gitBranch !== gitBranch, negated
cacheIsCurrent(c, gitBranch) == c.gitBranch = gitBranch

\* getIndexerState(config, context) on the files d. repo: isGitRepository
\* answers true; gitOk: getCurrentBranch does not throw, and reports branch;
\* loaded: what loadClientCache then does.
getIndexerState(repo, gitOk, branch, loaded) ==
    IF ~repo
    THEN [status |-> "error", message |-> "Not a git repository"]
    ELSE IF ~gitOk \/ loaded.threw
    THEN [status |-> "error", message |-> "Failed to get state"]
    ELSE IF ~cacheIsCurrent(loaded.cache, branch)
    THEN [status |-> "idle", message |-> "Re-scan needed", gitBranch |-> branch]
    ELSE [status |-> "idle", message |-> "Ready", gitBranch |-> branch,
          totalFiles |-> Cardinality(DOMAIN loaded.cache.files),
          totalChunks |-> sumChunkCounts(loaded.cache.files,
                                         PathList(DOMAIN loaded.cache.files))]

\* The caches a scan of a branch can have saved.
SavedCaches(branch) ==
    {[gitBranch |-> branch, deletedFiles |-> <<>>, files |-> f] :
        f \in Maps([hash : {"h1"}, chunkCount : Counts])}

StateInit ==
    /\ disk \in [CacheFileNames -> {AbsentFile, TextFile}
                                   \cup {JSONstringify(c) : c \in UNION {SavedCaches(b) : b \in CacheBranches}}]
    /\ \A b \in CacheBranches :
        LET doc == disk[getCachePath(WorkspacePath, b)]
        IN  doc.kind = "object" => doc.gitBranch = b
    /\ headBranch \in CacheBranches
    /\ held = NoCache
    /\ lastSaved = [b \in CacheBranches |-> NotSaved]
    /\ lastOp = NoOp
    /\ prevOp = NoOp

\* A caller asks for the indexer state. Between the getCurrentBranch of
\* getIndexerState and the one of loadClientCache another process may check
\* out another branch; any of the git commands and the read may fail.
IndexerStateCall ==
    /\ \E repo \in BOOLEAN, gitOk \in BOOLEAN, gitOkLoad \in BOOLEAN, readOk \in BOOLEAN,
          branchAtLoad \in CacheBranches :
        LET loaded == loadClientCache(disk, branchAtLoad, gitOkLoad, readOk)
            reached == repo /\ gitOk
        IN  /\ lastOp' = [op |-> "state", repo |-> repo,
                          stepFailed |-> repo /\ (~gitOk \/ loaded.threw),
                          gitBranch |-> headBranch, loaded |-> loaded.cache,
                          threw |-> FALSE,
                          state |-> getIndexerState(repo, gitOk, headBranch, loaded)]
            /\ headBranch' = IF reached THEN branchAtLoad ELSE headBranch
    /\ prevOp' = Brief(lastOp)
    /\ UNCHANGED <<disk, held, lastSaved>>
    /\ UNCHANGED notC

\* ======================================== watcher batches on the client cache
\* handleFileDeleted(filePath, config, context, cache): the server delete
\* aside, the files entry is removed and, on a feature branch, the path is
\* added to deletedFiles.
handleFileDeleted(c, filePath, branch) ==
    IF isMainBranch(branch) THEN removeCacheEntry(c, filePath)
    ELSE addDeletedFile(removeCacheEntry(c, filePath), filePath)

\* indexFile(filePath, config, context, cache): the file is read again,
\* hashed, chunked and uploaded, and its cache entry is updated; a file that
\* cannot be read makes the call throw, which leaves the cache as it was.
indexFile(c, filePath, present) ==
    IF present THEN updateCacheEntry(c, filePath, "h1", 1) ELSE c

\* Mutant of processDeleted: the first failure ends the loop.
RECURSIVE processDeleted_abortsOnFailure(_, _, _, _)
processDeleted_abortsOnFailure(c, events, branch, failing) ==
    IF events = <<>> \/ Head(events).filePath \in failing THEN c
    ELSE processDeleted_abortsOnFailure(handleFileDeleted(c, Head(events).filePath, branch),
                                        Tail(events), branch, failing)

\* for (const event of deleted) cache = await handleFileDeleted(...), where
\* a call that throws (for the files in failing) is logged and leaves the
\* cache as it was.
RECURSIVE processDeleted(_, _, _, _)
processDeleted(c, events, branch, failing) ==
    IF events = <<>> THEN c
    ELSE processDeleted(IF Head(events).filePath \in failing THEN c
                        ELSE handleFileDeleted(c, Head(events).filePath, branch),
                        Tail(events), branch, failing)

\* for (const event of toIndex) cache = await indexFile(...)
RECURSIVE processToIndex(_, _, _)
processToIndex(c, events, present) ==
    IF events = <<>> THEN c
    ELSE processToIndex(indexFile(c, Head(events).filePath, Head(events).filePath \in present),
                        Tail(events), present)

\* The cache a scan of the branch leaves: an entry for every file it
\* indexed and, on a feature branch, the files of the diff's deleted list.
ScannedCache(branch, present, base) ==
    IF isMainBranch(branch)
    THEN [gitBranch |-> branch, deletedFiles |-> <<>>,
          files |-> [p \in present |-> [hash |-> "h1", chunkCount |-> 1]]]
    ELSE [gitBranch |-> branch, deletedFiles |-> PathList(base \ present),
          files |-> [p \in present \ base |-> [hash |-> "h1", chunkCount |-> 1]]]

NoBatch == [events |-> <<>>, handled |-> <<>>, failed |-> {}, notified |-> <<>>,
            loaded |-> TRUE]

BatchInit ==
    /\ workspaceFiles \in SUBSET ScanFiles
    /\ baseFiles \in SUBSET ScanFiles
    /\ watchBranch \in ScanBranches
    /\ isMainBranch(watchBranch) => workspaceFiles = baseFiles
    /\ watchCache = ScannedCache(watchBranch, workspaceFiles, baseFiles)
    /\ watchServer = DOMAIN watchCache.files
    /\ watchQueue = <<>>
    /\ watchBatch = NoBatch

\* A workspace on feature/x whose base branch has a.ts.
BatchOrderInit ==
    /\ BatchInit
    /\ watchBranch = "feature/x"
    /\ baseFiles = {"a.ts"}

BatchOff ==
    /\ workspaceFiles = {}
    /\ baseFiles = {}
    /\ watchBranch = "main"
    /\ watchCache = createEmptyCache("main")
    /\ watchServer = {}
    /\ watchQueue = <<>>
    /\ watchBatch = NoBatch

\* A file is created in the workspace; the watcher queues the event.
FileCreated ==
    /\ Len(watchQueue) < MaxQueue
    /\ \E p \in ScanFiles \ workspaceFiles :
        /\ workspaceFiles' = workspaceFiles \cup {p}
        /\ watchQueue' = Append(watchQueue, [type |-> "created", filePath |-> p])
    /\ UNCHANGED <<baseFiles, watchBranch, watchCache, watchServer, watchBatch>>
    /\ UNCHANGED notB

\* A file of the workspace is written; the watcher queues the event.
FileChanged ==
    /\ Len(watchQueue) < MaxQueue
    /\ \E p \in workspaceFiles :
        watchQueue' = Append(watchQueue, [type |-> "changed", filePath |-> p])
    /\ UNCHANGED <<workspaceFiles, baseFiles, watchBranch, watchCache, watchServer, watchBatch>>
    /\ UNCHANGED notB

\* A file of the workspace is deleted; the watcher queues the event.
FileDeleted ==
    /\ Len(watchQueue) < MaxQueue
    /\ \E p \in workspaceFiles :
        /\ workspaceFiles' = workspaceFiles \ {p}
        /\ watchQueue' = Append(watchQueue, [type |-> "deleted", filePath |-> p])
    /\ UNCHANGED <<baseFiles, watchBranch, watchCache, watchServer, watchBatch>>
    /\ UNCHANGED notB

\* The files whose server calls throw during one batch.
FailingSets == {{}, {"a.ts"}}

\* Mutant of handlingOrder: the created and changed files come first.
handlingOrder_indexFirst(gone, toIndexed) == toIndexed \o gone

\* The order the events of a batch are handled in: the loop over the
\* deletions runs before the loop over the created and changed files.
handlingOrder(gone, toIndexed) == gone \o toIndexed

\* The debounce timer fires and processChangeQueue handles the queue: the
\* deletions first, then the created and changed files. The server calls
\* for the files in failing throw; a file that is gone cannot be indexed.
\* When loadClientCache throws, the batch ends in the outer catch.
BatchProcessed ==
    /\ watchQueue # <<>>
    /\ \E failing \in FailingSets, loadOk \in BOOLEAN :
        LET created == filterType(watchQueue, "created")
            changed == filterType(watchQueue, "changed")
            gone == filterType(watchQueue, "deleted")
            toIndexed == created \o changed
            indexable == workspaceFiles \ failing
            afterDeletes == processDeleted(watchCache, gone, watchBranch, failing)
        IN  IF loadOk
            THEN /\ watchCache' = processToIndex(afterDeletes, toIndexed, indexable)
                 /\ watchServer' =
                      (watchServer \ ({gone[k].filePath : k \in 1..Len(gone)} \ failing))
                      \cup ({toIndexed[k].filePath : k \in 1..Len(toIndexed)} \cap indexable)
                 /\ watchBatch' = [events |-> watchQueue,
                                   handled |-> handlingOrder(gone, toIndexed),
                                   failed |-> failing,
                                   notified |-> <<watchQueue>>, loaded |-> TRUE]
            ELSE /\ watchBatch' = [events |-> watchQueue, handled |-> <<>>, failed |-> {},
                                   notified |-> <<>>, loaded |-> FALSE]
                 /\ UNCHANGED <<watchCache, watchServer>>
    /\ watchQueue' = <<>>
    /\ UNCHANGED <<workspaceFiles, baseFiles, watchBranch>>
    /\ UNCHANGED notB

\* ============================================================== git probe
\* What refs/remotes/origin/HEAD can point to, "unset" when it does not
\* exist; a ref outside refs/remotes/origin is one the regular expression
\* does not match.
OriginHeads == {"unset", "refs/remotes/origin/main", "refs/remotes/origin/canary",
                "refs/heads/main"}
\* The HEAD of the remote as `git remote set-head origin --auto` finds it.
RemoteHeads == {"unreachable", "main", "canary"}
LocalBranches == {"main", "develop", "master", "canary"}
ProbeNames == {"main", "Main", "MASTER", "develop", "development", "canary", "Canary",
               "feature/x"}
NoWorkspace == "undefined"

GitRepos == [works : BOOLEAN, originHead : OriginHeads, remoteHead : RemoteHeads,
             branches : SUBSET LocalBranches]

\* output.match(/refs\/remotes\/origin\/(.+)$/): the branch name, or "null"
matchOriginHead(output) ==
    CASE output = "refs/remotes/origin/main" -> "main"
      [] output = "refs/remotes/origin/canary" -> "canary"
      [] OTHER -> "null"

\* execSync("git symbolic-ref refs/remotes/origin/HEAD").trim()
symbolicRef(git) ==
    IF git.works /\ git.originHead # "unset" THEN [threw |-> FALSE, output |-> git.originHead]
    ELSE [threw |-> TRUE, output |-> ""]

\* execSync("git remote set-head origin --auto"): the repository after it
setHeadAuto(git) ==
    IF git.works /\ git.remoteHead # "unreachable"
    THEN [threw |-> FALSE,
          git |-> [git EXCEPT !.originHead =
                      IF git.remoteHead = "main" THEN "refs/remotes/origin/main"
                      ELSE "refs/remotes/origin/canary"]]
    ELSE [threw |-> TRUE, git |-> git]

\* Mutant of getDefaultBranchFromRemote: set-head and the second read also
\* run when the first read succeeded with an output of another form.
getDefaultBranchFromRemote_retriesOnMalformed(git) ==
    LET first == symbolicRef(git)
        set == setHeadAuto(git)
        second == symbolicRef(set.git)
    IN  IF ~first.threw /\ matchOriginHead(first.output) # "null"
        THEN [value |-> matchOriginHead(first.output), calls |-> <<"symbolic-ref">>, git |-> git]
        ELSE IF set.threw
        THEN [value |-> "null", calls |-> <<"symbolic-ref", "set-head">>, git |-> git]
        ELSE [value |-> IF second.threw THEN "null" ELSE matchOriginHead(second.output),
              calls |-> <<"symbolic-ref", "set-head", "symbolic-ref">>, git |-> set.git]

\* getDefaultBranchFromRemote(workspacePath): the branch name or "null", the
\* git commands it ran and the repository it leaves.
getDefaultBranchFromRemote(git) ==
    LET first == symbolicRef(git)
        set == setHeadAuto(git)
        second == symbolicRef(set.git)
    IN  IF ~first.threw
        THEN [value |-> matchOriginHead(first.output), calls |-> <<"symbolic-ref">>, git |-> git]
        ELSE IF set.threw
        THEN [value |-> "null", calls |-> <<"symbolic-ref", "set-head">>, git |-> git]
        ELSE [value |-> IF second.threw THEN "null" ELSE matchOriginHead(second.output),
              calls |-> <<"symbolic-ref", "set-head", "symbolic-ref">>, git |-> set.git]

\* The branches `git rev-parse --verify` succeeds for.
Verified(git) == IF git.works THEN git.branches ELSE {}

\* isBaseBranch(branchName, workspacePath?) with the commands it runs: the
\* remote default is asked for only when the name is not a common one and a
\* workspace path is given.
isBaseBranchCall(branchName, workspacePath, git) ==
    IF isBaseBranch(branchName, "null") \/ workspacePath = NoWorkspace
    THEN [value |-> isBaseBranch(branchName, "null"), threw |-> FALSE, calls |-> <<>>,
          git |-> git]
    ELSE LET d == getDefaultBranchFromRemote(git)
         IN  [value |-> isBaseBranch(branchName, d.value), threw |-> FALSE, calls |-> d.calls,
              git |-> d.git]

\* Mutant of getBaseBranchCall: main is tried before the remote default.
getBaseBranchCall_mainFirst(git) ==
    LET d == getDefaultBranchFromRemote(git)
    IN  [value |-> IF "main" \in Verified(d.git) THEN "main"
                   ELSE getBaseBranch(d.value, Verified(d.git)),
         threw |-> FALSE, calls |-> d.calls, git |-> d.git]

\* getBaseBranch(workspacePath) with the commands it runs.
getBaseBranchCall(git) ==
    LET d == getDefaultBranchFromRemote(git)
    IN  [value |-> getBaseBranch(d.value, Verified(d.git)), threw |-> FALSE, calls |-> d.calls,
         git |-> d.git]

NoProbe == [fn |-> "none"]

GitInit ==
    /\ gitRepo \in GitRepos
    /\ probe = NoProbe

GitOff ==
    /\ gitRepo = [works |-> FALSE, originHead |-> "unset", remoteHead |-> "unreachable",
                  branches |-> {}]
    /\ probe = NoProbe

\* A caller asks whether a branch is a base branch.
ProbeIsBaseBranch ==
    /\ \E branchName \in ProbeNames, workspacePath \in {NoWorkspace, WorkspacePath} :
        LET r == isBaseBranchCall(branchName, workspacePath, gitRepo)
        IN  /\ probe' = [fn |-> "isBaseBranch", branchName |-> branchName,
                         workspacePath |-> workspacePath, before |-> gitRepo,
                         value |-> r.value, threw |-> r.threw, calls |-> r.calls]
            /\ gitRepo' = r.git
    /\ UNCHANGED notG

\* A caller asks for the default branch of the remote.
ProbeDefaultBranch ==
    /\ LET r == getDefaultBranchFromRemote(gitRepo)
       IN  /\ probe' = [fn |-> "getDefaultBranchFromRemote", before |-> gitRepo,
                        value |-> r.value, threw |-> FALSE, calls |-> r.calls]
           /\ gitRepo' = r.git
    /\ UNCHANGED notG

\* A caller asks for the base branch of the workspace.
ProbeGetBaseBranch ==
    /\ LET r == getBaseBranchCall(gitRepo)
       IN  /\ probe' = [fn |-> "getBaseBranch", before |-> gitRepo, value |-> r.value,
                        threw |-> r.threw, calls |-> r.calls]
           /\ gitRepo' = r.git
    /\ UNCHANGED notG


\* ======================================================== parseDiffOutput
\* Index of the first sep in str at or after k, 0 when there is none.
RECURSIVE indexOfChar(_, _, _)
indexOfChar(str, sep, k) ==
    IF k > Len(str) THEN 0
    ELSE IF str[k] = sep THEN k
    ELSE indexOfChar(str, sep, k + 1)

\* str.split(sep)
RECURSIVE splitOn(_, _)
splitOn(str, sep) ==
    LET k == indexOfChar(str, sep, 1)
    IN  IF k = 0 THEN <<str>>
        ELSE <<SubSeq(str, 1, k - 1)>> \o splitOn(SubSeq(str, k + 1, Len(str)), sep)

\* parts.join(sep)
RECURSIVE joinWith(_, _)
joinWith(ls, sep) ==
    IF ls = <<>> THEN <<>>
    ELSE IF Len(ls) = 1 THEN ls[1]
    ELSE ls[1] \o <<sep>> \o joinWith(Tail(ls), sep)

\* line.trim() is not the empty string
trimmedNonEmpty(line) == \E k \in 1..Len(line) : line[k] \notin {" ", "\t", "\n"}

\* diffOutput.split("\n").filter((line) => line.trim())
diffLinesOf(output) == SelectSeq(splitOn(output, "\n"), trimmedNonEmpty)

\* Mutant of parseDiffLine: the whole status is compared, not its first
\* letter.
parseDiffLine_wholeStatus(acc, line) ==
    LET parts == splitOn(line, "\t")
        status == parts[1]
        filePath == joinWith(Tail(parts), "\t")
    IN  IF Len(parts) < 2 THEN acc
        ELSE CASE status = <<"A">> -> [acc EXCEPT !.added = Append(@, filePath)]
               [] status = <<"M">> -> [acc EXCEPT !.modified = Append(@, filePath)]
               [] status = <<"D">> -> [acc EXCEPT !.deleted = Append(@, filePath)]
               [] status = <<"R">> /\ Len(parts) >= 3 ->
                    [acc EXCEPT !.deleted = Append(@, parts[2]),
                                !.added = Append(@, parts[3])]
               [] status = <<"C">> /\ Len(parts) >= 3 ->
                    [acc EXCEPT !.added = Append(@, parts[3])]
               [] OTHER -> acc

\* The body of the for loop of parseDiffOutput on one line.
parseDiffLine(acc, line) ==
    LET parts == splitOn(line, "\t")
        status == parts[1]
        filePath == joinWith(Tail(parts), "\t")
        letter == IF status = <<>> THEN "undefined" ELSE status[1]
    IN  IF Len(parts) < 2 THEN acc
        ELSE CASE letter = "A" -> [acc EXCEPT !.added = Append(@, filePath)]
               [] letter = "M" -> [acc EXCEPT !.modified = Append(@, filePath)]
               [] letter = "D" -> [acc EXCEPT !.deleted = Append(@, filePath)]
               [] letter = "R" /\ Len(parts) >= 3 ->
                    [acc EXCEPT !.deleted = Append(@, parts[2]),
                                !.added = Append(@, parts[3])]
               [] letter = "C" /\ Len(parts) >= 3 ->
                    [acc EXCEPT !.added = Append(@, parts[3])]
               [] OTHER -> acc

\* What git diff --name-status prints, and lines that are not of that form.
DiffPaths == {<<"p">>, <<"q">>}
OnePathStatuses == {<<"A">>, <<"M">>, <<"D">>, <<"T">>, <<"U">>}
TwoPathStatuses == {<<"R">>, <<"R", "9">>, <<"C">>, <<"C", "9">>}
DiffEntries ==
    [status : OnePathStatuses, paths : {<<x>> : x \in DiffPaths}]
    \cup [status : TwoPathStatuses,
          paths : {<<x, y>> : x \in DiffPaths, y \in DiffPaths} \ {<<x, x>> : x \in DiffPaths}]
    \cup [status : {<<"A">>, <<"T">>, <<>>, <<" ">>}, paths : {<<>>}]

EntryLists == UNION {[1..n -> DiffEntries] : n \in 0..MaxDiffLines}

\* The line git prints for an entry: the status and the paths, each path
\* after a TAB.
RECURSIVE tabbed(_)
tabbed(paths) == IF paths = <<>> THEN <<>> ELSE <<"\t">> \o Head(paths) \o tabbed(Tail(paths))

entryLine(e) == e.status \o tabbed(e.paths)

entryLines(es) == [k \in 1..Len(es) |-> entryLine(es[k])]

DiffInit ==
    /\ diffEntries \in EntryLists
    /\ \E trailingNewline \in BOOLEAN :
        diffOutput = joinWith(entryLines(diffEntries), "\n")
                     \o (IF trailingNewline THEN <<"\n">> ELSE <<>>)
    /\ parsePc = "loop"
    /\ parseI = 0
    /\ diffLists = NoDiff

DiffOff ==
    /\ diffEntries = <<>>
    /\ diffOutput = <<>>
    /\ parsePc = "off"
    /\ parseI = 0
    /\ diffLists = NoDiff

\* One iteration of the for loop over the non-blank lines.
ParseLine ==
    /\ parsePc = "loop"
    /\ parseI < Len(diffLinesOf(diffOutput))
    /\ diffLists' = parseDiffLine(diffLists, diffLinesOf(diffOutput)[parseI + 1])
    /\ parseI' = parseI + 1
    /\ UNCHANGED <<diffEntries, diffOutput, parsePc>>
    /\ UNCHANGED notP

\* return { added, modified, deleted }
ParseReturn ==
    /\ parsePc = "loop"
    /\ parseI = Len(diffLinesOf(diffOutput))
    /\ parsePc' = "done"
    /\ UNCHANGED <<diffEntries, diffOutput, parseI, diffLists>>
    /\ UNCHANGED notP


\* =================================================== cache objects in memory
\* The content of the cache object at a reference.
deref(files, lists, caches, ref) ==
    [gitBranch |-> caches[ref].gitBranch, deletedFiles |-> lists[caches[ref].deletedFiles],
     files |-> files[caches[ref].files]]

\* updateCacheEntry on the object at ref: cache.files[filePath] = {...}
\* writes into the files object of the argument, and the argument is
\* returned.
updateCacheEntryAt(files, lists, caches, ref, filePath, fileHash, chunkCount) ==
    [files |-> [files EXCEPT ![caches[ref].files] =
                   updateCacheEntry(deref(files, lists, caches, ref), filePath, fileHash,
                                    chunkCount).files],
     lists |-> lists, caches |-> caches, result |-> ref]

\* removeCacheEntry on the object at ref: a new object { ...cache, files:
\* remainingFiles } with a new files object; deletedFiles is the array of
\* the argument.
removeCacheEntryAt(files, lists, caches, ref, filePath) ==
    [files |-> Append(files, removeCacheEntry(deref(files, lists, caches, ref), filePath).files),
     lists |-> lists,
     caches |-> Append(caches, [caches[ref] EXCEPT !.files = Len(files) + 1]),
     result |-> Len(caches) + 1]

\* addDeletedFile on the object at ref: the argument itself when the path is
\* listed, else a new object with a new array; files is the object of the
\* argument.
addDeletedFileAt(files, lists, caches, ref, filePath) ==
    IF filePath \in {lists[caches[ref].deletedFiles][k] :
                        k \in 1..Len(lists[caches[ref].deletedFiles])}
    THEN [files |-> files, lists |-> lists, caches |-> caches, result |-> ref]
    ELSE [files |-> files,
          lists |-> Append(lists, addDeletedFile(deref(files, lists, caches, ref),
                                                 filePath).deletedFiles),
          caches |-> Append(caches, [caches[ref] EXCEPT !.deletedFiles = Len(lists) + 1]),
          result |-> Len(caches) + 1]

\* removeDeletedFile on the object at ref: a new object with a new array.
removeDeletedFileAt(files, lists, caches, ref, filePath) ==
    [files |-> files,
     lists |-> Append(lists, removeDeletedFile(deref(files, lists, caches, ref),
                                               filePath).deletedFiles),
     caches |-> Append(caches, [caches[ref] EXCEPT !.deletedFiles = Len(lists) + 1]),
     result |-> Len(caches) + 1]

NoHelperCall == [fn |-> "none", calls |-> 0]

\* createEmptyCache("main") has run once: one cache object with its own
\* files object and deletedFiles array.
HeapInit ==
    /\ heapFiles = <<createEmptyCache("main").files>>
    /\ heapLists = <<createEmptyCache("main").deletedFiles>>
    /\ heapCaches = <<[gitBranch |-> "main", files |-> 1, deletedFiles |-> 1]>>
    /\ helperCall = NoHelperCall

HeapOff ==
    /\ heapFiles = <<>>
    /\ heapLists = <<>>
    /\ heapCaches = <<>>
    /\ helperCall = NoHelperCall

\* The heap after a helper call, and the record of the call.
HelperReturns(fn, ref, r) ==
    /\ helperCall.calls < MaxHelperCalls
    /\ heapFiles' = r.files
    /\ heapLists' = r.lists
    /\ heapCaches' = r.caches
    /\ helperCall' = [fn |-> fn, calls |-> helperCall.calls + 1, arg |-> ref,
                      argBefore |-> deref(heapFiles, heapLists, heapCaches, ref),
                      result |-> r.result]
    /\ UNCHANGED notH

CallUpdateCacheEntry ==
    \E ref \in 1..Len(heapCaches), p \in ScanFiles, h \in Hashes :
        HelperReturns("updateCacheEntry", ref,
                      updateCacheEntryAt(heapFiles, heapLists, heapCaches, ref, p, h, 1))

CallRemoveCacheEntry ==
    \E ref \in 1..Len(heapCaches), p \in ScanFiles :
        HelperReturns("removeCacheEntry", ref,
                      removeCacheEntryAt(heapFiles, heapLists, heapCaches, ref, p))

CallAddDeletedFile ==
    \E ref \in 1..Len(heapCaches), p \in ScanFiles :
        HelperReturns("addDeletedFile", ref,
                      addDeletedFileAt(heapFiles, heapLists, heapCaches, ref, p))

CallRemoveDeletedFile ==
    \E ref \in 1..Len(heapCaches), p \in ScanFiles :
        HelperReturns("removeDeletedFile", ref,
                      removeDeletedFileAt(heapFiles, heapLists, heapCaches, ref, p))

RestOff == CacheOff /\ BatchOff /\ GitOff /\ DiffOff /\ HeapOff

\* ========================================================= specifications
Init == WatcherOff /\ OrchInit /\ ScanOff /\ SearchOff /\ ChunkOff /\ RestOff

Next ==
    \/ StartNotARepo
    \/ StartBranchFails
    \/ StartFetchManifest
    \/ \E r \in ManifestResponses : ManifestSettles(r)
    \/ ScanProgress
    \/ \E fp \in Counts, ci \in Counts : ScanSucceeds(fp, ci)
    \/ ScanFails
    \/ HandleDispose

Spec == Init /\ [][Next]_vars

WatcherSpecInit == WatcherInit /\ OrchOff /\ ScanOff /\ SearchOff /\ ChunkOff /\ RestOff

WatcherNext ==
    \/ OnDidCreate
    \/ OnDidChange
    \/ OnDidDelete
    \/ TimerFires
    \/ \E b \in 1..MaxEvents : BatchLoaded(b)
    \/ \E b \in 1..MaxEvents : BatchLoadFailed(b)
    \/ \E b \in 1..MaxEvents : BatchStep(b)
    \/ WatcherDispose

SpecWatcher == WatcherSpecInit /\ [][WatcherNext]_vars

ScanSpecInit == WatcherOff /\ OrchOff /\ ScanInit /\ SearchOff /\ ChunkOff /\ RestOff

ScanNext ==
    \/ ScanEnumerate
    \/ ScanReconcile
    \/ ScanStartUpload
    \/ ScanUpload
    \/ ScanFinish

SpecScan == ScanSpecInit /\ [][ScanNext]_vars

RescanSpecInit == WatcherOff /\ OrchOff /\ RescanInit /\ SearchOff /\ ChunkOff /\ RestOff

RescanNext ==
    \/ ScanEnumerate
    \/ ScanReconcile
    \/ ScanStartUpload
    \/ ScanUpload
    \/ ScanFinish
    \/ StartSettles
    \/ StartAgain

SpecRescan == RescanSpecInit /\ [][RescanNext]_vars

SearchSpecInit == WatcherOff /\ OrchOff /\ ScanOff /\ SearchInit /\ ChunkOff /\ RestOff

SearchNext ==
    \/ SearchBranchFails
    \/ SearchSendsRequest
    \/ SearchReturns
    \/ SearchRemoteFails

SpecSearch == SearchSpecInit /\ [][SearchNext]_vars

ChunkSpecInit == WatcherOff /\ OrchOff /\ ScanOff /\ SearchOff /\ ChunkInit /\ RestOff

ChunkNext ==
    \/ ChunkLine
    \/ ChunkReturn

SpecChunk == ChunkSpecInit /\ [][ChunkNext]_vars

ChunkIdSpecInit == WatcherOff /\ OrchOff /\ ScanOff /\ SearchOff /\ ChunkIdInit /\ RestOff

ChunkIdNext ==
    \/ ChunkLine
    \/ ChunkReturn
    \/ ChunkAgain

SpecChunkId == ChunkIdSpecInit /\ [][ChunkIdNext]_vars

CacheSpecInit ==
    WatcherOff /\ OrchOff /\ ScanOff /\ SearchOff /\ ChunkOff /\ CacheInit /\ BatchOff
    /\ GitOff /\ DiffOff /\ HeapOff

CacheNext ==
    \/ Checkout
    \/ CacheLoad
    \/ CacheMutate
    \/ CacheSave
    \/ CacheClear

SpecCache == CacheSpecInit /\ [][CacheNext]_vars

BatchSpecInit ==
    WatcherOff /\ OrchOff /\ ScanOff /\ SearchOff /\ ChunkOff /\ CacheOff /\ BatchInit
    /\ GitOff /\ DiffOff /\ HeapOff

BatchNext ==
    \/ FileCreated
    \/ FileChanged
    \/ FileDeleted
    \/ BatchProcessed

SpecBatch == BatchSpecInit /\ [][BatchNext]_vars

BatchOrderSpecInit ==
    WatcherOff /\ OrchOff /\ ScanOff /\ SearchOff /\ ChunkOff /\ CacheOff /\ BatchOrderInit
    /\ GitOff /\ DiffOff /\ HeapOff

SpecBatchOrder == BatchOrderSpecInit /\ [][BatchNext]_vars

GitSpecInit ==
    WatcherOff /\ OrchOff /\ ScanOff /\ SearchOff /\ ChunkOff /\ CacheOff /\ BatchOff
    /\ GitInit /\ DiffOff /\ HeapOff

GitNext ==
    \/ ProbeIsBaseBranch
    \/ ProbeGetBaseBranch
    \/ ProbeDefaultBranch

SpecGit == GitSpecInit /\ [][GitNext]_vars

DiffSpecInit ==
    WatcherOff /\ OrchOff /\ ScanOff /\ SearchOff /\ ChunkOff /\ CacheOff /\ BatchOff
    /\ GitOff /\ DiffInit /\ HeapOff

DiffNext ==
    \/ ParseLine
    \/ ParseReturn

SpecDiff == DiffSpecInit /\ [][DiffNext]_vars

StateSpecInit ==
    WatcherOff /\ OrchOff /\ ScanOff /\ SearchOff /\ ChunkOff /\ StateInit /\ BatchOff
    /\ GitOff /\ DiffOff /\ HeapOff

StateNext ==
    \/ Checkout
    \/ IndexerStateCall

SpecState == StateSpecInit /\ [][StateNext]_vars

HelpersSpecInit ==
    WatcherOff /\ OrchOff /\ ScanOff /\ SearchOff /\ ChunkOff /\ CacheOff /\ BatchOff
    /\ GitOff /\ DiffOff /\ HeapInit

HelpersNext ==
    \/ CallUpdateCacheEntry
    \/ CallRemoveCacheEntry
    \/ CallAddDeletedFile
    \/ CallRemoveDeletedFile

SpecHelpers == HelpersSpecInit /\ [][HelpersNext]_vars

\* ================================================================= claims

\* ---------------------------------------------------------------- watcher
BatchIds(b) == {batches[b].events[k].id : k \in 1..Len(batches[b].events)}
QueueIds == {changeQueue[k].id : k \in 1..Len(changeQueue)}
BatchesHolding(i) == {b \in 1..Len(batches) : i \in BatchIds(b)}

\* C1: every accepted filesystem event is handed to exactly one processed
\* batch: an accepted event is waiting in the queue or was snapshotted into
\* one batch, never dropped from the queue without a batch and never
\* snapshotted into two batches.
C1_EveryEventInExactlyOneBatch ==
    \A i \in accepted :
        /\ Cardinality(BatchesHolding(i)) <= 1
        /\ i \in QueueIds \/ BatchesHolding(i) # {}

\* C2: watcher batches never overlap: at most one processChangeQueue
\* invocation is in progress at any time.
C2_BatchesNeverOverlap ==
    Cardinality({b \in 1..Len(batches) : Running(b)}) <= 1

\* The create/change events of batch b on path f.
UploadEvents(b, f) ==
    {k \in 1..Len(batches[b].events) :
        /\ batches[b].events[k].filePath = f
        /\ batches[b].events[k].type \in {"created", "changed"}}

\* All create/change events of batch b on path f arrived within one debounce
\* window (no timer expiration between them).
SameWindow(b, f) ==
    \A k1, k2 \in UploadEvents(b, f) :
        batches[b].events[k1].timestamp = batches[b].events[k2].timestamp

\* Batch b has run through its whole work list.
Completed(b) ==
    /\ batches[b].pc = "done"
    /\ batches[b].pos = Len(WorkList(batches[b].events))

\* C3: N >= 1 create/change events on one file accepted within one debounce
\* window lead to exactly one indexFile call for that file in the batch that
\* processes them.
C3_OneUploadPerFilePerWindow ==
    \A b \in 1..Len(batches) : \A f \in Paths :
        (Completed(b) /\ UploadEvents(b, f) # {} /\ SameWindow(b, f))
            => IndexFileCalls(b, f) = 1

\* C4: after the watcher is disposed no batch is started, even when the
\* debounce timer was armed before the disposal.
C4_NoBatchAfterDispose ==
    [][watcherDisposed => Len(batches') = Len(batches)]_vars

\* ----------------------------------------------------------- orchestrator
IsStopEvent(e) == e.message = "Indexing stopped"
NotStopEvent(e) == ~IsStopEvent(e)

\* The states emitted by the startIndexing call itself (not by dispose).
StartEmitted == SelectSeq(emitted, NotStopEvent)

\* C5: when the scan returns success, the last state emitted by Start is
\* watching if files_processed > 0 or chunks_indexed > 0 and idle ("no files
\* indexed") otherwise, it is preceded by a scanning state, and Start returns
\* a handle.
C5_FinalStateAfterSuccess ==
    result.state = "success" =>
        LET s == StartEmitted
            n == Len(s)
        IN  /\ outcome = "handle"
            /\ n >= 2
            /\ s[n].status =
                IF result.filesProcessed > 0 \/ result.chunksIndexed > 0
                THEN "watching" ELSE "idle"
            /\ (s[n].status = "idle" => s[n].message = "No files indexed")
            /\ \E i \in 1..(n - 1) : s[i].status = "scanning"

\* C5 witness: a scan that processed files but indexed no chunk ended in
\* watching, and one that did neither ended in idle with the handle returned.
C5_Witness ==
    /\ result.state = "success"
    /\ outcome = "handle"
    /\ result.filesProcessed > 0
    /\ result.chunksIndexed = 0
    /\ emitted[Len(emitted)].status = "watching"

\* C6: once Start has reached watching (and until the handle is disposed) the
\* watcher is installed.
C6_WatcherInstalledWhileWatching ==
    (/\ outcome = "handle"
     /\ handleLive
     /\ emitted[Len(emitted)].status = "watching") => watcherInstalled

ErrorEvents == SelectSeq(emitted, LAMBDA e : e.status = "error")
ScanningEvents == SelectSeq(emitted, LAMBDA e : e.status = "scanning")

\* C7: a failing Start emits exactly one error state, and when the workspace
\* is not a git repository no manifest fetch, scan or scanning state happens.
C7_SingleErrorEventOnFailure ==
    outcome = "threw" =>
        /\ Len(ErrorEvents) = 1
        /\ (~isRepo =>
                /\ manifestFetches = 0
                /\ scanCalls = 0
                /\ ScanningEvents = <<>>)

\* Status before the i-th emitted state (idle before the first one).
PrevStatus(i) == IF i = 1 THEN "idle" ELSE emitted[i - 1].status

\* The transitions the state-machine sentence lists.
ListedTransition(from, e) ==
    \/ from = "idle" /\ e.status = "scanning"
    \/ from = "scanning" /\ e.status = "scanning"
    \/ from = "scanning" /\ e.status = "watching"
    \/ from = "scanning" /\ e.status = "error"
    \/ from = "watching" /\ e.status = "error"
    \/ e.status = "idle" /\ IsStopEvent(e)

\* The transitions startIndexing takes besides: failing before the scan
\* (idle -> error, and a second error state after "Not a git repository"),
\* and ending a scan that indexed nothing in idle.
FurtherTransition(from, e) ==
    \/ from = "idle" /\ e.status = "error"
    \/ from = "error" /\ e.status = "error"
    \/ from = "scanning" /\ e.status = "idle" /\ e.message = "No files indexed"

WatchingAfterScanning ==
    \A i \in 1..Len(emitted) :
        emitted[i].status = "watching" =>
            \E j \in 1..(i - 1) : emitted[j].status = "scanning"

\* C8 as stated: the emitted statuses follow only idle -> scanning ->
\* watching, scanning -> error, watching -> error and any -> idle via
\* dispose (scanning progress may repeat), and watching never comes without
\* a preceding scanning.
C8_OnlyListedTransitions ==
    /\ \A i \in 1..Len(emitted) : ListedTransition(PrevStatus(i), emitted[i])
    /\ WatchingAfterScanning

\* C8 amended: the emitted statuses follow only the listed transitions and
\* idle -> error, error -> error and scanning -> idle ("no files indexed",
\* emitted by Start itself); watching never comes without a preceding
\* scanning.
C8_Transitions ==
    /\ \A i \in 1..Len(emitted) :
        \/ ListedTransition(PrevStatus(i), emitted[i])
        \/ FurtherTransition(PrevStatus(i), emitted[i])
    /\ WatchingAfterScanning

\* C8 witness: a run through idle -> scanning -> watching -> idle (dispose).
C8_Witness ==
    /\ Len(emitted) >= 3
    /\ \E i \in 1..Len(emitted) : emitted[i].status = "watching"
    /\ IsStopEvent(emitted[Len(emitted)])

StopEvents == SelectSeq(emitted, IsStopEvent)

\* C9: for any number (>= 1) of dispose calls on the handle, the terminal
\* idle state is emitted exactly once and no state is emitted after it.
C9_DisposeIdempotent ==
    disposeCalls >= 1 =>
        /\ Len(StopEvents) = 1
        /\ IsStopEvent(emitted[Len(emitted)])

\* C9 witness: the handle was disposed more than once.
C9_Witness ==
    /\ disposeCalls >= 2
    /\ Len(StopEvents) = 1

\* ---------------------------------------------------------------- scanner
Candidates == {f \in ScanFiles : localFiles[f] # "absent"}

\* {f \in L : hash(f) # C[f].hash (or f absent from C) and hash(f) # M[f].hash
\* (or f absent from M)}
ExpectedUploads ==
    {f \in Candidates :
        /\ f \notin DOMAIN cache0.files \/ cache0.files[f].hash # localFiles[f]
        /\ \/ ~serverManifest.present
           \/ f \notin DOMAIN serverManifest.files
           \/ serverManifest.files[f].fileHash # localFiles[f]}

\* Candidates whose current hash equals the manifest's entry.
ManifestEqual == {f \in Candidates : ManifestMatches(serverManifest, f, localFiles[f])}

\* The cache entry the manifest's entry for f gives.
FromManifest(f) ==
    [hash |-> serverManifest.files[f].fileHash,
     chunkCount |-> serverManifest.files[f].chunkCount]

SecondRun == Len(runs) = 2 \/ (Len(runs) = 1 /\ scanPc # "settled")

\* C11: re-scan is idempotent: the scan of a second run, started right after
\* a successful first scan with no change of the workspace in between,
\* enqueues and upserts no file and deletes no file on the server.
C11_RescanIdempotent ==
    SecondRun => (uploaded = {} /\ deleted = {} /\ toIndex = <<>>)

\* C11 witness: the second run has finished after a first run that upserted
\* a file and deleted another one on the server.
C11_Witness ==
    /\ Len(runs) = 2
    /\ runs[1].uploaded # {}
    /\ runs[1].deleted # {}

\* C12: when Start is run twice on an unchanged workspace and the first run
\* indexed at least one file, the second run ends in the state watching.
C12_SecondRunEndsWatching ==
    (Len(runs) = 2 /\ runs[1].uploaded # {}) => runs[2].final.status = "watching"

\* The paths of a list.
Range(q) == {q[k] : k \in 1..Len(q)}

\* C13: on a feature branch a scan uploads only files of diff.added and
\* diff.modified, and once the scan has finished the cache's deletedFiles is
\* diff.deleted.
C13_FeatureBranchUploadsDiffOnly ==
    ~isMainBranch(scanBranch) =>
        /\ uploaded \subseteq (Range(diff.added) \cup Range(diff.modified))
        /\ uploaded \cap Range(diff.deleted) = {}
        /\ scanPc \in {"done", "settled"} => cache.deletedFiles = diff.deleted

\* C13 witness: a finished feature-branch scan that uploaded a file of the
\* diff and replaced the deleted-files list of an earlier scan by the
\* diff's non-empty one.
C13_Witness ==
    /\ ~isMainBranch(scanBranch)
    /\ scanPc = "done"
    /\ uploaded # {}
    /\ diff.deleted # <<>>
    /\ cache0.deletedFiles # diff.deleted

\* ------------------------------------------------------------------ search
\* The base branch of the workspace as getBaseBranch determines it.
BaseBranch == getBaseBranch(remoteDefault, verifies)

\* C14: Search sends excludeFiles = [] whenever the current branch is a base
\* branch (isBaseBranch: case-insensitively main, master, develop or
\* development, or the remote's default branch), and the deleted list of
\* diff(current branch, base branch) whenever it is a feature branch and that
\* diff succeeds.
C14_ExcludeFilesByBranchKind ==
    \A k \in 1..Len(requests) :
        IF isBaseBranch(curBranch, remoteDefault)
        THEN requests[k].excludeFiles = <<>>
        ELSE gitDiff[BaseBranch].ok => requests[k].excludeFiles = gitDiff[BaseBranch].deleted

\* C15: every Search request carries preferBranch = the current branch and
\* fallbackBranch = the base branch of the workspace (the remote default
\* branch when it verifies locally, otherwise the first of main, develop,
\* master that verifies), together with the caller's query, organization,
\* project and path.
C15_RequestCarriesBranches ==
    \A k \in 1..Len(requests) :
        /\ requests[k].preferBranch = curBranch
        /\ requests[k].fallbackBranch = BaseBranch
        /\ requests[k].query = searchArgs.query
        /\ requests[k].organizationId = searchArgs.organizationId
        /\ requests[k].projectId = searchArgs.projectId
        /\ requests[k].path = searchArgs.path

\* The search has passed the point where it calls the remote search or throws.
SearchActed == searchPc \in {"request", "done"}

\* C16: Search degrades when the git diff fails: once the branch is known it
\* issues exactly one remote search request, with excludeFiles = [] when the
\* diff it ran failed; it ends in an error without a request only when branch
\* discovery failed; and an error of the remote search is the search's
\* outcome.
C16_SearchDegradesOnDiffFailure ==
    /\ Len(requests) <= 1
    /\ (SearchActed /\ curBranch # NoBranch) => Len(requests) = 1
    /\ (SearchActed /\ curBranch # NoBranch /\ ~gitDiff["main"].ok)
            => requests[1].excludeFiles = <<>>
    /\ (searchPc = "done" /\ requests = <<>>)
            => (curBranch = NoBranch /\ searchOutcome = "GitError")
    /\ (searchPc = "done" /\ requests # <<>>) => searchOutcome \in {"results", "RemoteError"}

\* C16 witness: on a feature branch whose diff against main fails, the
\* request was sent without exclusions and the search returned results.
C16_Witness ==
    /\ curBranch = "feature/x"
    /\ ~gitDiff["main"].ok
    /\ Len(requests) = 1
    /\ requests[1].excludeFiles = <<>>
    /\ searchOutcome = "results"

\* ------------------------------------------------------- manifest failures
\* C17: when the manifest fetch of Start returns 404, Start treats it as an
\* empty manifest: it emits scanning and runs the scanner without a
\* manifest, and no error state is emitted for the 404 (an error state
\* appears only when the scan itself fails afterwards).
C17_Manifest404IsEmptyManifest ==
    manifestResponse = "404" =>
        /\ manifest = "undefined"
        /\ scanCalls = 1
        /\ Len(ScanningEvents) >= 1
        /\ emitted[1] = ScanningStart
        /\ Len(ErrorEvents) > 0 => result.state = "failure"

\* C17 witness: after a 404 the scan ran and Start ended in watching.
C17_Witness ==
    /\ manifestResponse = "404"
    /\ scanCalls = 1
    /\ pc = "done"
    /\ outcome = "handle"
    /\ \E i \in 1..Len(emitted) : emitted[i].status = "watching"

\* C18: when the manifest fetch of Start receives a non-retryable 4xx other
\* than 404 (for example 401), Start ends with an error state and does not
\* continue into a scan.
C18_Manifest4xxSurfaces ==
    manifestResponse = "401" =>
        /\ scanCalls = 0
        /\ Len(ErrorEvents) >= 1
        /\ ScanningEvents = <<>>

\* ----------------------------------------------------------------- chunker
\* The chunks of the previous and of the current chunkFile call.
AllChunks == Range(prevChunks) \cup Range(chunks)

\* Two chunks of the same file, line range and organization.
SameRange(c1, c2) ==
    /\ c1.filePath = c2.filePath
    /\ c1.startLine = c2.startLine
    /\ c1.endLine = c2.endLine
    /\ c1.organizationId = c2.organizationId

\* C19: chunk identity is deterministic and branch-scoped: chunks of the same
\* file path, line range, branch and organization have the same id, also
\* across calls, and chunks that differ in the branch alone have different
\* ids (sha256 and uuidv5 taken as injective).
C19_ChunkIdBranchScoped ==
    \A c1, c2 \in AllChunks :
        /\ (SameRange(c1, c2) /\ c1.gitBranch = c2.gitBranch) => c1.id = c2.id
        /\ (SameRange(c1, c2) /\ c1.gitBranch # c2.gitBranch) => c1.id # c2.id

\* C19 witness: two calls returned chunks of the same file, range and
\* organization on two branches.
C19_Witness ==
    /\ chunkPc = "done"
    /\ \E c1 \in Range(prevChunks), c2 \in Range(chunks) :
        /\ SameRange(c1, c2)
        /\ c1.gitBranch # c2.gitBranch

\* The characters of the content from the first character of line fromLine
\* to the last character of line toLine (1-based, inclusive): the lines
\* fromLine..toLine joined by newline.
LinesText(fromLine, toLine) ==
    SubSeq(chunkInput.content,
           chunkChars(SubSeq(Lines, 1, fromLine - 1)) + 1,
           chunkChars(SubSeq(Lines, 1, toLine)) - 1)

\* The file has at least one line of content.
HasContent == \E k \in 1..Len(Lines) : Lines[k] # <<>>

\* C20: for every chunk returned by chunkFile, code_chunk is the
\* file's lines start_line..end_line joined by newline, and its length is at
\* least min_chars unless it is the last chunk of a file that has at least
\* one line of content.
C20_ChunkTextAndMinChars ==
    chunkPc = "done" =>
        \A k \in 1..Len(chunks) :
            /\ chunks[k].codeChunk = LinesText(chunks[k].startLine, chunks[k].endLine)
            /\ \/ Len(chunks[k].codeChunk) >= chunkInput.config.minChunkChars
               \/ k = Len(chunks) /\ HasContent

\* Length of the longest line of the file.
RECURSIVE longest(_)
longest(ls) == IF ls = <<>> THEN 0 ELSE Max(Len(Head(ls)), longest(Tail(ls)))

\* C21: every chunk returned by chunkFile has at most max_chars + (length of
\* the longest line of the file) characters, for every file and every
\* configuration with overlap_lines >= 0.
C21_ChunkOverflowsByOneLine ==
    \A k \in 1..Len(chunks) :
        Len(chunks[k].codeChunk) <= chunkInput.config.maxChunkChars + longest(Lines)

\* Number of lines of a chunk.
LineCount(c) == c.endLine - c.startLine + 1

Min(a, b) == IF a <= b THEN a ELSE b

\* The lines chunk A shares with the chunk that follows it.
Shared(A) == Min(chunkInput.config.overlapLines, LineCount(A))

\* C22: for consecutive chunks A, B of one file with overlap_lines = k > 0,
\* B.start_line = A.end_line - min(k, lines of A) + 1, and the first
\* min(k, lines of A) lines of B are textually the last ones of A.
C22_OverlapLines ==
    \A k \in 1..(Len(chunks) - 1) :
        LET A == chunks[k]
            B == chunks[k + 1]
            la == split(A.codeChunk)
            lb == split(B.codeChunk)
        IN  chunkInput.config.overlapLines > 0 =>
                /\ B.startLine = A.endLine - Shared(A) + 1
                /\ Len(lb) >= Shared(A)
                /\ SubSeq(lb, 1, Shared(A)) = SubSeq(la, Len(la) - Shared(A) + 1, Len(la))

\* C22 witness: chunkFile returned a chunk of three lines followed by a
\* chunk that starts with its last two lines, which differ in text.
C22_Witness ==
    /\ chunkPc = "done"
    /\ chunkInput.config.overlapLines = 2
    /\ \E k \in 1..(Len(chunks) - 1) :
        /\ LineCount(chunks[k]) = 3
        /\ chunks[k + 1].startLine = chunks[k].startLine + 1
        /\ Lines[chunks[k].endLine] # Lines[chunks[k].endLine - 1]

\* C23: every chunk returned by chunkFile satisfies 1 <= start_line <=
\* end_line <= number of lines of the file, for every content and every
\* configuration.
C23_LineRangeWithinFile ==
    \A k \in 1..Len(chunks) :
        /\ 1 <= chunks[k].startLine
        /\ chunks[k].startLine <= chunks[k].endLine
        /\ chunks[k].endLine <= Len(Lines)

\* C23 witness: chunkFile returned chunks under overlap_lines = 0 of a file
\* whose last chunk ends at the last line.
C23_Witness ==
    /\ chunkPc = "done"
    /\ chunkInput.config.overlapLines = 0
    /\ Len(chunks) >= 2
    /\ chunks[Len(chunks)].endLine = Len(Lines)
    /\ chunks[2].startLine = chunks[1].endLine + 1

\* ------------------------------------------------------------ cache store
LoadReturned == lastOp.op = "load" /\ ~lastOp.threw

\* C24: client caches are never shared between branches: whatever branch
\* switches, loads, saves and clears came before, a load returns a cache
\* whose gitBranch is the checked-out branch, and that cache is either empty
\* or the one last written under that very branch, never one written under
\* another branch; every cache file holds the cache of the branch it is
\* named after.
C24_CachePerBranch ==
    /\ LoadReturned =>
        /\ lastOp.cache.gitBranch = headBranch
        /\ \/ lastOp.cache = createEmptyCache(headBranch)
           \/ /\ lastSaved[headBranch].some
              /\ lastOp.cache = lastSaved[headBranch].cache
    /\ \A b \in CacheBranches :
        LET parsed == JSONparse(disk[getCachePath(WorkspacePath, b)])
        IN  (~parsed.threw /\ validCacheStructure(parsed)) => parsed.value.gitBranch = b

C24_Witness ==
    /\ LoadReturned
    /\ lastOp.how = "ok"
    /\ headBranch = "feature/x"
    /\ lastOp.cache.files # <<>>
    /\ lastSaved["main"].some
    /\ lastSaved["main"].cache.deletedFiles # <<>>
    /\ lastSaved["main"].cache.files # lastOp.cache.files

\* A load that came right after a save that wrote its file, and that neither
\* the Git probe nor the read of an existing file failed.
LoadAfterSave ==
    /\ lastOp.op = "load"
    /\ lastOp.how \notin {"gitFails", "readFails"}
    /\ prevOp.op = "save"
    /\ prevOp.wrote

C27_CacheErrorsSwallowed ==
    /\ (lastOp.op = "load" /\ lastOp.how \in {"missing", "readFails", "parseFails", "invalid"}) =>
        /\ ~lastOp.threw
        /\ lastOp.cache = createEmptyCache(headBranch)
        /\ held = lastOp.cache
    /\ (lastOp.op = "save" /\ ~lastOp.wrote) =>
        /\ ~lastOp.threw
        /\ held = lastOp.cache

C27_Witness ==
    /\ lastOp.op = "load"
    /\ lastOp.how = "parseFails"
    /\ prevOp.op = "save"
    /\ ~prevOp.wrote
    /\ held = createEmptyCache("feature/x")

\* ------------------------------------------- watcher batches on the cache
\* C25: on a feature branch, once the watcher has processed every queued
\* event, every path in deletedFiles is absent from the live workspace and
\* present on the base branch.
C25_DeletedFilesAbsentAndOnBase ==
    (~isMainBranch(watchBranch) /\ watchQueue = <<>>) =>
        \A p \in Range(watchCache.deletedFiles) :
            p \notin workspaceFiles /\ p \in baseFiles

\* -------------------------------------------------------------- git probe
\* The remote default branch as far as the repository can tell: what
\* refs/remotes/origin/HEAD names or, when that ref does not exist, what
\* the remote reports as its HEAD; "null" when neither can be had.
KnownDefault(git) ==
    IF ~git.works THEN "null"
    ELSE IF git.originHead = "refs/remotes/origin/main" THEN "main"
    ELSE IF git.originHead = "refs/remotes/origin/canary" THEN "canary"
    ELSE IF git.originHead = "unset" /\ git.remoteHead # "unreachable" THEN git.remoteHead
    ELSE "null"

FirstCommon(verified) ==
    IF "main" \in verified THEN "main"
    ELSE IF "develop" \in verified THEN "develop"
    ELSE IF "master" \in verified THEN "master"
    ELSE "none"

\* C28: getBaseBranch returns the remote default branch whenever it is known
\* and verifies locally, main verifying or not; otherwise the first of
\* main, develop, master that verifies; "main" when none verifies or every
\* git command fails; it never throws.
C28_BaseBranchOrder ==
    probe.fn = "getBaseBranch" =>
        LET known == KnownDefault(probe.before)
            verified == Verified(probe.before)
        IN  /\ ~probe.threw
            /\ (known # "null" /\ known \in verified) => probe.value = known
            /\ (~(known # "null" /\ known \in verified) /\ FirstCommon(verified) # "none") =>
                    probe.value = FirstCommon(verified)
            /\ (~(known # "null" /\ known \in verified) /\ FirstCommon(verified) = "none") =>
                    probe.value = "main"
            /\ ~probe.before.works => probe.value = "main"

C28_Witness ==
    /\ probe.fn = "getBaseBranch"
    /\ probe.before.works
    /\ probe.before.originHead = "unset"
    /\ probe.before.remoteHead = "canary"
    /\ {"main", "canary"} \subseteq probe.before.branches
    /\ probe.value = "canary"

CommonBaseBranches == {"main", "master", "develop", "development"}

\* C29: isBaseBranch(name, ws?) is true exactly when name equals, case
\* aside, one of main, master, develop, development, or ws is given and
\* name equals, case aside, the remote default branch; for any other name
\* it is false, without a throw, when the remote default cannot be
\* determined; for the four common names it runs no git command.
C29_IsBaseBranch ==
    probe.fn = "isBaseBranch" =>
        LET known == KnownDefault(probe.before)
            common == toLowerCase(probe.branchName) \in CommonBaseBranches
            isDefault == /\ probe.workspacePath # NoWorkspace
                         /\ known # "null"
                         /\ toLowerCase(probe.branchName) = toLowerCase(known)
        IN  /\ ~probe.threw
            /\ probe.value = (common \/ isDefault)
            /\ (~common /\ known = "null") => probe.value = FALSE
            /\ common => (probe.value = TRUE /\ probe.calls = <<>>)

C29_Witness ==
    /\ probe.fn = "isBaseBranch"
    /\ probe.branchName = "Canary"
    /\ probe.workspacePath # NoWorkspace
    /\ probe.before.originHead = "unset"
    /\ probe.calls = <<"symbolic-ref", "set-head", "symbolic-ref">>
    /\ probe.value = TRUE

\* -------------------------------------------------------- parseDiffOutput
FirstLetter(e) == IF e.status = <<>> THEN "none" ELSE e.status[1]

\* The paths the entries with one of the given status letters contribute,
\* in the order of the entries: the only path of an A, M or D entry, the
\* path numbered pathIndex of an R or C entry.
RECURSIVE Contributed(_, _, _)
Contributed(es, letters, pathIndex) ==
    IF es = <<>> THEN <<>>
    ELSE LET e == Head(es)
             picked == IF FirstLetter(e) \in letters /\ FirstLetter(e) \in {"A", "M", "D"}
                          /\ Len(e.paths) = 1
                       THEN <<e.paths[1]>>
                       ELSE IF FirstLetter(e) \in letters /\ FirstLetter(e) \in {"R", "C"}
                               /\ Len(e.paths) = 2
                       THEN <<e.paths[pathIndex]>>
                       ELSE <<>>
         IN  picked \o Contributed(Tail(es), letters, pathIndex)

\* The added list takes the A entries and the new paths of the R and C
\* entries; the deleted list the D entries and the old paths of the R
\* entries.
RECURSIVE ExpectedAdded(_)
ExpectedAdded(es) ==
    IF es = <<>> THEN <<>>
    ELSE Contributed(<<Head(es)>>, {"A"}, 1) \o Contributed(<<Head(es)>>, {"R", "C"}, 2)
         \o ExpectedAdded(Tail(es))

RECURSIVE ExpectedDeleted(_)
ExpectedDeleted(es) ==
    IF es = <<>> THEN <<>>
    ELSE Contributed(<<Head(es)>>, {"D"}, 1) \o Contributed(<<Head(es)>>, {"R"}, 1)
         \o ExpectedDeleted(Tail(es))

\* C30: parseDiffOutput classifies each line by the first letter of its
\* status: A to added, M to modified, D to deleted, R with or without a
\* score the old path to deleted and the new path to added, C the new path
\* to added; a line with another status or without a TAB and a path goes to
\* no list; each list keeps the order of the lines.
C30_DiffClassifiedByFirstLetter ==
    parsePc = "done" =>
        /\ diffLists.added = ExpectedAdded(diffEntries)
        /\ diffLists.modified = Contributed(diffEntries, {"M"}, 1)
        /\ diffLists.deleted = ExpectedDeleted(diffEntries)

C30_Witness ==
    /\ parsePc = "done"
    /\ Len(diffEntries) = 2
    /\ diffEntries[1].status = <<"R", "9">>
    /\ diffEntries[1].paths = <<<<"p">>, <<"q">>>>
    /\ diffEntries[2].status = <<"A">>
    /\ diffEntries[2].paths = <<<<"p">>>>
    /\ diffLists.added = <<<<"q">>, <<"p">>>>
    /\ diffLists.deleted = <<<<"p">>>>

\* -------------------------------------------------------- getIndexerState
\* C31: getIndexerState never throws and never reports scanning or
\* watching; it returns error when the workspace is not a git repository
\* or a step fails; otherwise idle, with the re-scan guidance exactly when
\* the loaded cache's branch differs from the current branch, and else with
\* totalFiles the number of cache entries and totalChunks the sum of their
\* chunk counts.
C31_IndexerState ==
    lastOp.op = "state" =>
        LET st == lastOp.state
            c == lastOp.loaded
        IN  /\ ~lastOp.threw
            /\ st.status \in {"idle", "error"}
            /\ (st.status = "error") = (~lastOp.repo \/ lastOp.stepFailed)
            /\ st.status = "idle" =>
                /\ (st.message = "Re-scan needed") = (c.gitBranch # lastOp.gitBranch)
                /\ st.message # "Re-scan needed" =>
                    /\ st.totalFiles = Cardinality(DOMAIN c.files)
                    /\ st.totalChunks =
                         (IF "a.ts" \in DOMAIN c.files THEN c.files["a.ts"].chunkCount ELSE 0)
                         + (IF "b.ts" \in DOMAIN c.files THEN c.files["b.ts"].chunkCount ELSE 0)

C31_Witness ==
    /\ lastOp.op = "state"
    /\ lastOp.state.status = "idle"
    /\ lastOp.state.message = "Ready"
    /\ lastOp.state.totalFiles = 2
    /\ lastOp.state.totalChunks = 1
    /\ prevOp.op = "state"

\* ------------------------------------------------ order within one batch
\* C32: within one watcher batch every delete event is handled before any
\* create or change event, whatever the order the events were queued in.
C32_DeletesHandledFirst ==
    \A i \in 1..Len(watchBatch.handled), j \in 1..Len(watchBatch.handled) :
        (i < j /\ watchBatch.handled[j].type = "deleted") =>
            watchBatch.handled[i].type = "deleted"

C32_Witness ==
    /\ Len(watchBatch.events) = 2
    /\ watchBatch.events[1].type = "created"
    /\ watchBatch.events[2].type = "deleted"
    /\ Len(watchBatch.handled) = 2
    /\ watchBatch.handled[1].type = "deleted"
    /\ watchBatch.handled[2].type = "created"

Occurrences(q, e) == Cardinality({k \in 1..Len(q) : q[k] = e})

\* The handling of the event succeeded: the server calls for its file did
\* not throw and, for a created or changed file, the file could be read.
Succeeded(e) ==
    IF e.type = "deleted" THEN e.filePath \notin watchBatch.failed
    ELSE e.filePath \in workspaceFiles \ watchBatch.failed

\* The positions in the handling order of the successful events on p.
SuccessfulOn(p) ==
    {k \in 1..Len(watchBatch.handled) :
        watchBatch.handled[k].filePath = p /\ Succeeded(watchBatch.handled[k])}

LastSuccessfulOn(p) == CHOOSE k \in SuccessfulOn(p) : \A l \in SuccessfulOn(p) : l <= k

\* C33: a failure on one event of a batch does not end the batch: every
\* event of the batch is handled, the cache holds the change of the last
\* successful event on each file, and onFilesChanged is called once with
\* all the events.
C33_FailureDoesNotAbortBatch ==
    (watchQueue = <<>> /\ watchBatch.loaded /\ watchBatch.events # <<>>) =>
        /\ Len(watchBatch.handled) = Len(watchBatch.events)
        /\ \A e \in Range(watchBatch.events) :
            Occurrences(watchBatch.handled, e) = Occurrences(watchBatch.events, e)
        /\ \A p \in ScanFiles :
            SuccessfulOn(p) # {} =>
                IF watchBatch.handled[LastSuccessfulOn(p)].type = "deleted"
                THEN /\ p \notin DOMAIN watchCache.files
                     /\ p \in Range(watchCache.deletedFiles)
                ELSE p \in DOMAIN watchCache.files
        /\ watchBatch.notified = <<watchBatch.events>>

C33_Witness ==
    /\ watchQueue = <<>>
    /\ watchBatch.loaded
    /\ watchBatch.failed = {"a.ts"}
    /\ watchBatch.events = <<[type |-> "deleted", filePath |-> "a.ts"],
                             [type |-> "deleted", filePath |-> "b.ts"]>>
    /\ "a.ts" \notin Range(watchCache.deletedFiles)
    /\ "b.ts" \in Range(watchCache.deletedFiles)
    /\ watchBatch.notified = <<watchBatch.events>>

\* ----------------------------------------------------- cache helpers
\* C34: the helpers updateCacheEntry, removeCacheEntry, addDeletedFile and
\* removeDeletedFile leave the cache object they were handed as it was:
\* its files and its deletedFiles are the same after the call as before.
C34_HelpersLeaveArgumentUnchanged ==
    helperCall.fn # "none" =>
        deref(heapFiles, heapLists, heapCaches, helperCall.arg) = helperCall.argBefore

\* ----------------------------------------------------- small and empty files
\* C35: chunkFile returns no chunk for an empty file, and no chunk for a
\* file whose lines, counted as length + 1 each, sum to less than
\* min_chars.
C35_SmallFilesYieldNoChunks ==
    chunkPc = "done" =>
        (chunkInput.content = <<>> \/ chunkChars(Lines) < chunkInput.config.minChunkChars
            => chunks = <<>>)

\* ----------------------------------------------------- long lines
\* C36: a line longer than max_chars is neither split nor dropped: some
\* returned chunk has start_line = end_line = the number of that line.
C36_LongLineIsOwnChunk ==
    chunkPc = "done" =>
        \A n \in 1..Len(Lines) :
            Len(Lines[n]) > chunkInput.config.maxChunkChars =>
                \E k \in 1..Len(chunks) : chunks[k].startLine = n /\ chunks[k].endLine = n

\* The numbers of the lines longer than max_chars.
LongLines == {n \in 1..Len(Lines) : Len(Lines[n]) > chunkInput.config.maxChunkChars}

\* C36 as amended: a line longer than max_chars, and of at least
\* min_chars - 1 characters, is neither split nor dropped: some returned
\* chunk ends at that line and holds it whole, after the lines carried into
\* the chunk: the overlap lines of the chunk before, or lines that had not
\* reached min_chars. The chunk is the line alone when no line was carried.
C36_LongLineEndsAChunk ==
    chunkPc = "done" =>
        \A n \in LongLines :
            Len(Lines[n]) + 1 >= chunkInput.config.minChunkChars =>
                \E k \in 1..Len(chunks) :
                    /\ chunks[k].endLine = n
                    /\ chunks[k].startLine <= n
                    /\ chunks[k].codeChunk = LinesText(chunks[k].startLine, n)
                    /\ (chunkInput.config.overlapLines = 0
                        /\ chunkInput.config.minChunkChars <= 1) => chunks[k].startLine = n

\* chunkFile has returned for a file whose last line is long, and a long
\* line after the first is returned in a chunk that starts before it.
C36_Witness ==
    /\ chunkPc = "done"
    /\ \E n \in LongLines :
        /\ n > 1
        /\ \E k \in 1..Len(chunks) : chunks[k].endLine = n /\ chunks[k].startLine < n
    /\ \E n \in LongLines : n = Len(Lines)

\* ----------------------------------------------------- getDefaultBranchFromRemote
\* How often a command is among the git commands of a call.
Runs(calls, cmd) == Cardinality({k \in 1..Len(calls) : calls[k] = cmd})

\* C37: getDefaultBranchFromRemote runs git remote set-head origin --auto at
\* most once per call and only after the first symbolic-ref read failed, and
\* reads the symbolic ref once more after it; it returns null and does not
\* throw when the ref still cannot be read or when the output is not of the
\* form refs/remotes/origin/<name>; it runs git at most three times.
C37_DefaultBranchFromRemote ==
    probe.fn = "getDefaultBranchFromRemote" =>
        LET first == symbolicRef(probe.before)
            set == setHeadAuto(probe.before)
        IN  /\ ~probe.threw
            /\ Len(probe.calls) <= 3
            /\ probe.calls[1] = "symbolic-ref"
            /\ Runs(probe.calls, "set-head") <= 1
            /\ Runs(probe.calls, "set-head") = 1 <=> first.threw
            /\ first.threw => probe.calls[2] = "set-head"
            /\ Runs(probe.calls, "symbolic-ref") = 2
                   <=> first.threw /\ ~set.threw /\ probe.calls[3] = "symbolic-ref"
            /\ first.threw /\ set.threw => probe.value = "null"
            /\ ~first.threw /\ matchOriginHead(first.output) = "null"
                   => probe.value = "null" /\ probe.calls = <<"symbolic-ref">>
            /\ ~first.threw /\ matchOriginHead(first.output) # "null"
                   => probe.value = matchOriginHead(first.output)

\* A call has returned whose first read failed: it set the remote HEAD and
\* read the name at the second attempt.
C37_Witness ==
    /\ probe.fn = "getDefaultBranchFromRemote"
    /\ symbolicRef(probe.before).threw
    /\ probe.calls = <<"symbolic-ref", "set-head", "symbolic-ref">>
    /\ probe.value \in {"main", "canary"}

\* ----------------------------------------------------- chunk line ranges
\* C38: the chunks chunkFile returns for one file have, in order, strictly
\* increasing end_line and non-decreasing start_line; the first starts at
\* line 1 and every later one starts no later than the line after the end
\* of the chunk before it; no two of them have the same line range, and so
\* no two the same id.
C38_ChunkRangesAdvance ==
    chunkPc = "done" =>
        /\ chunks # <<>> => chunks[1].startLine = 1
        /\ \A k \in 2..Len(chunks) :
            /\ chunks[k].endLine > chunks[k - 1].endLine
            /\ chunks[k].startLine >= chunks[k - 1].startLine
            /\ chunks[k].startLine <= chunks[k - 1].endLine + 1
        /\ \A j, k \in 1..Len(chunks) :
            j # k => /\ <<chunks[j].startLine, chunks[j].endLine>>
                        # <<chunks[k].startLine, chunks[k].endLine>>
                     /\ chunks[j].id # chunks[k].id

\* chunkFile has returned three chunks, two of them with the same
\* start_line and two that do not overlap.
C38_Witness ==
    /\ chunkPc = "done"
    /\ Len(chunks) >= 3
    /\ \E k \in 2..Len(chunks) : chunks[k].startLine = chunks[k - 1].startLine

\* ----------------------------------------------------- what a chunk id depends on
\* The arguments a chunk id is computed from.
IdKey(c) == <<c.filePath, c.startLine, c.endLine, c.gitBranch, c.organizationId>>

OtherCacheFiles(b) == {getCachePath(WorkspacePath, o) : o \in CacheBranches \ {b}}

\* C39: clearClientCache resets the cache of the current branch of the
\* workspace only: it does not throw; when its write succeeded, the next
\* load on that branch returns an empty cache; the caches saved for the
\* other branches, the cache the caller holds and the server index are as
\* before; and when the branch cannot be read or the write fails nothing is
\* written and nothing is reported to the caller.
C39_ClearResetsCurrentBranchOnly ==
    [][/\ lastOp'.op = "clear" =>
            /\ ~lastOp'.threw
            /\ \A f \in OtherCacheFiles(headBranch) : disk'[f] = disk[f]
            /\ lastOp'.wrote =>
                 \A readOk \in BOOLEAN :
                     LET r == loadClientCache(disk', headBranch, TRUE, readOk)
                     IN  ~r.threw /\ r.cache = createEmptyCache(headBranch)
            /\ ~lastOp'.wrote => disk' = disk
            /\ UNCHANGED <<held, headBranch, server, watchServer>>
       /\ (lastOp.op = "clear" /\ lastOp.wrote /\ lastOp'.op = "load"
              /\ lastOp'.how \notin {"gitFails"}) =>
            /\ ~lastOp'.threw
            /\ lastOp'.cache = createEmptyCache(headBranch)
            /\ lastOp'.how \in {"ok", "readFails"}]_vars

\* A load has returned the empty cache right after a clear that wrote it,
\* while the file of the other branch holds the non-empty cache saved for
\* that branch.
C39_Witness ==
    /\ lastOp.op = "load"
    /\ lastOp.how = "ok"
    /\ prevOp.op = "clear"
    /\ prevOp.wrote
    /\ lastOp.cache = createEmptyCache(headBranch)
    /\ \E b \in CacheBranches \ {headBranch} :
        /\ lastSaved[b].some
        /\ lastSaved[b].cache.files # <<>>
        /\ disk[getCachePath(WorkspacePath, b)] = JSONstringify(lastSaved[b].cache)

====
